---- MODULE Spec2Model ----
(***************************************************************************)
(* Room scheduler (src/src/App.tsx): the weekly schedule grid, the         *)
(* therapist availability rules, the auto-roster generator                 *)
(* (generateAutoRoster with its canAssignTherapist predicate), the manual  *)
(* edits (onDropCell, clearSlot, resetSchedule), the rule editing          *)
(* handlers, the recount effect (calculateTherapistCounts), and what is    *)
(* kept in localStorage: the saved schedule (saveSchedule, the load        *)
(* effect) and the rules (the therapistRules initializer).                 *)
(*                                                                         *)
(* JavaScript handlers run to completion, so every handler is one action.  *)
(* The only handler that is split is generateAutoRoster: one action per    *)
(* iteration of its innermost loop, with every other handler disabled      *)
(* while the pass is running (pc = "generating"); the observable grid      *)
(* `schedule` is only written by the pass's last statement.                *)
(*                                                                         *)
(* The module-level arrays days, rooms and therapists are constants of the *)
(* program.  They are state here (never changed by any action) so that     *)
(* each specification fixes its own configuration in its Init: the shipped *)
(* lists are shippedDays, shippedRooms and shippedTherapists, and the      *)
(* smaller configurations are sub-lists of them in the shipped order.      *)
(* Arrays that the code only tests with includes/filter are sets.          *)
(***************************************************************************)
EXTENDS Integers, Sequences, FiniteSets, TLC

VARIABLES
    days,                       \* const days
    rooms,                      \* const rooms
    therapists,                 \* const therapists
    schedule,                   \* useState schedule: day -> slot -> room -> name or ""
    therapistRules,             \* useState therapistRules
    therapistSlotCounts,        \* useState therapistSlotCounts (recount effect)
    lastAssignedIndex,          \* useRef lastAssignedIndex.current (0-based)
    stored,                     \* localStorage: the schedule entry of the id in the URL
    pc,                         \* "idle", or "generating" inside generateAutoRoster
    newSchedule,                \* generateAutoRoster: local newSchedule
    therapistTotalAssignments,  \* generateAutoRoster: local running totals
    therapistRoomUsage,         \* generateAutoRoster: local per-room totals
    dayAssignments,             \* generateAutoRoster: per-day AM/PM occupancy
    loopPos,                    \* generateAutoRoster: the three loop indices (1-based)
    startIndex,                 \* history: lastAssignedIndex when the pass started
    visited,                    \* history: cells the pass has visited, in order
    genLog,                     \* history: results of finished passes under the current rules
    ruleEdits,                  \* number of rule edits made so far (bounded by MaxRuleEdits)
    opDetail,                   \* whether lastOp keeps the handler's arguments
    lastOp                      \* history: the handler that ran last

vars == <<days, rooms, therapists, schedule, therapistRules, therapistSlotCounts,
          lastAssignedIndex, stored, pc, newSchedule, therapistTotalAssignments,
          therapistRoomUsage, dayAssignments, loopPos, startIndex, visited,
          genLog, ruleEdits, opDetail, lastOp>>

config == <<days, rooms, therapists, opDetail>>

genLocals == <<newSchedule, therapistTotalAssignments, therapistRoomUsage,
               dayAssignments, loopPos, startIndex, visited>>

----------------------------------------------------------------------------
(* Bounds of the model.                                                    *)

\* Rule edits (checkbox and radio changes) explored by the full specification.
MaxRuleEdits == 2

----------------------------------------------------------------------------
(* Configuration.                                                          *)

shippedDays == <<"Mon", "Tue", "Wed", "Thu", "Fri">>

slots == <<"AM", "PM">>

shippedRooms ==
    <<"Room A", "Room B", "Room C", "Room D", "Biz 2", "CLB", "L4 Pod", "UHC", "BTC">>

shippedTherapists ==
    <<"Dominic Yeo", "Kirsty Png", "Soon Jiaying", "Andrew Lim", "Janice Leong",
      "Oliver Tan", "Claudia Ahl", "Seanna Neo", "Xiao Hui", "Tika Zainal">>

\* The days holding the two UHC windows, one unrestricted room and UHC, two people.
smallDays == <<"Wed", "Thu">>

\* One-day configurations, for the specifications that explore every handler
\* together: UHC open in the morning (Wed) or in the afternoon (Thu).
wedOnly == <<"Wed">>

thuOnly == <<"Thu">>

smallRooms == <<"Room A", "UHC">>

\* The first four rooms, none of which has a time window.
unrestrictedRooms == <<"Room A", "Room B", "Room C", "Room D">>

smallTherapists == <<"Dominic Yeo", "Kirsty Png">>

\* Three rooms with the windowed room in the middle, and three people.
scanRooms == <<"Room A", "UHC", "BTC">>

scanTherapists == <<"Dominic Yeo", "Kirsty Png", "Soon Jiaying">>

\* Two rooms without a time window, for the full five-day week.
weekRooms == <<"Room A", "Room B">>

Range(seq) == {seq[i] : i \in 1..Len(seq)}

Days == Range(days)

Slots == Range(slots)

Rooms == Range(rooms)

Therapists == Range(therapists)

\* All cell addresses of the calendar shape.
Cells == Days \X Slots \X Rooms

\* Mutant: the position in the list counted from 1.
indexFromOne(t) == CHOOSE i \in 1..Len(therapists) : therapists[i] = t

\* Mutant: the cursor is put on the person after the assigned one.
indexAfter(t) == (CHOOSE i \in 1..Len(therapists) : therapists[i] = t) % Len(therapists)

\* therapists.indexOf(t), 0-based.
indexOf(t) == (CHOOSE i \in 1..Len(therapists) : therapists[i] = t) - 1

----------------------------------------------------------------------------
(* Pure functions.                                                         *)

\* The empty object {} given to normalizeSchedule.
emptyBlob == [d \in {} |-> ""]

\* schedule?.[day]?.[slot]?.[room] ?? ""
lookup(blob, day, slot, room) ==
    IF /\ day \in DOMAIN blob
       /\ slot \in DOMAIN blob[day]
       /\ room \in DOMAIN blob[day][slot]
    THEN blob[day][slot][room]
    ELSE ""

\* Mutant: the stored slot object is spread into the result before the rooms are
\* filled in, so its stale room keys survive.
normalizeKeepsStaleRooms(blob) ==
    [day \in Days |-> [slot \in Slots |->
        [room \in Rooms \cup (IF day \in DOMAIN blob /\ slot \in DOMAIN blob[day]
                               THEN DOMAIN blob[day][slot] ELSE {}) |->
            lookup(blob, day, slot, room)]]]

\* Mutant: the room loop reads one room ahead (rooms[i + 1] for rooms[i]).
normalizeShiftsRooms(blob) ==
    [day \in Days |-> [slot \in Slots |-> [room \in Rooms |->
        LET i == CHOOSE k \in 1..Len(rooms) : rooms[k] = room
        IN  IF i < Len(rooms) THEN lookup(blob, day, slot, rooms[i + 1]) ELSE ""]]]

\* Mutant: names that are not configured therapists are cleared on the way in.
normalizeDropsUnknownNames(blob) ==
    [day \in Days |-> [slot \in Slots |-> [room \in Rooms |->
        IF lookup(blob, day, slot, room) \in Therapists
        THEN lookup(blob, day, slot, room)
        ELSE ""]]]

\* Mutant: normalization applies the room window, a UHC cell outside Wed AM
\* and Thu PM comes out empty.
normalizeAppliesWindow(blob) ==
    [day \in Days |-> [slot \in Slots |-> [room \in Rooms |->
        IF /\ room = "UHC"
           /\ ~(day = "Wed" /\ slot = "AM")
           /\ ~(day = "Thu" /\ slot = "PM")
        THEN ""
        ELSE lookup(blob, day, slot, room)]]]

\* Mutant: the blob is read slot first (schedule?.[slot]?.[day]?.[room]).
normalizeSwapsKeys(blob) ==
    [day \in Days |-> [slot \in Slots |-> [room \in Rooms |->
        lookup(blob, slot, day, room)]]]

normalizeSchedule(blob) ==
    [day \in Days |-> [slot \in Slots |-> [room \in Rooms |->
        lookup(blob, day, slot, room)]]]

initializeDefaultAvailability ==
    [t \in Therapists |->
        [availableDays |-> Days,
         wfhDays |-> {},
         availableSlots |-> Slots,
         maxConsecutiveSlotsPerDay |-> 2]]

isUHCBlocked(day, slot, room) ==
    IF room = "UHC"
    THEN LET allowedWedAM == day = "Wed" /\ slot = "AM"
             allowedThuPM == day = "Thu" /\ slot = "PM"
         IN  ~(allowedWedAM \/ allowedThuPM)
    ELSE FALSE

\* Mutant: the recount increments totalSlots and forgets roomDistribution.
calculateCountsTotalsOnly(sched) ==
    [t \in Therapists |->
        [totalSlots |->
            Cardinality({c \in Cells : sched[c[1]][c[2]][c[3]] = t}),
         roomDistribution |-> [r \in Rooms |-> 0]]]

\* Mutant: the recount skips the newCounts[assignedTherapist] test and makes
\* an entry for whatever name a cell holds.
calculateCountsAnyName(sched) ==
    [t \in Therapists \cup ({sched[c[1]][c[2]][c[3]] : c \in Cells} \ {""}) |->
        [totalSlots |->
            Cardinality({c \in Cells : sched[c[1]][c[2]][c[3]] = t}),
         roomDistribution |->
            [r \in Rooms |->
                Cardinality({c \in Cells : c[3] = r /\ sched[c[1]][c[2]][c[3]] = t})]]]

\* The recount effect: counts for the configured therapists only.
calculateTherapistCounts(sched) ==
    [t \in Therapists |->
        [totalSlots |->
            Cardinality({c \in Cells : sched[c[1]][c[2]][c[3]] = t}),
         roomDistribution |->
            [r \in Rooms |->
                Cardinality({c \in Cells : c[3] = r /\ sched[c[1]][c[2]][c[3]] = t})]]]

\* Mutant: the move copies, the source cell is not cleared.
dropUpdaterKeepsSource(prev, therapistName, sourceType, from, to) ==
    [prev EXCEPT ![to[1]][to[2]][to[3]] = therapistName]

\* Mutant: a move swaps, the previous occupant of the target goes to the
\* source cell.
dropUpdaterSwaps(prev, therapistName, sourceType, from, to) ==
    LET moved ==
            IF /\ sourceType = "cell"
               /\ from # to
               /\ lookup(prev, from[1], from[2], from[3]) = therapistName
            THEN [prev EXCEPT ![from[1]][from[2]][from[3]] =
                                  lookup(prev, to[1], to[2], to[3])]
            ELSE prev
    IN  [moved EXCEPT ![to[1]][to[2]][to[3]] = therapistName]

\* Mutant: the target is written first and the source is cleared afterwards,
\* without comparing the two addresses.
dropUpdaterClearsAfterWrite(prev, therapistName, sourceType, from, to) ==
    LET written == [prev EXCEPT ![to[1]][to[2]][to[3]] = therapistName]
    IN  IF /\ sourceType = "cell"
           /\ lookup(written, from[1], from[2], from[3]) = therapistName
        THEN [written EXCEPT ![from[1]][from[2]][from[3]] = ""]
        ELSE written

\* The updater onDropCell hands to setSchedule (after its two early returns).
dropUpdater(prev, therapistName, sourceType, from, to) ==
    LET cleared ==
            IF /\ sourceType = "cell"
               /\ from # to
               /\ lookup(prev, from[1], from[2], from[3]) = therapistName
            THEN [prev EXCEPT ![from[1]][from[2]][from[3]] = ""]
            ELSE prev
    IN  [cleared EXCEPT ![to[1]][to[2]][to[3]] = therapistName]

\* Mutant: the room window is not checked.
onDropCellUnchecked(prev, therapistName, sourceType, from, to) ==
    IF therapistName = ""
    THEN prev
    ELSE dropUpdater(prev, therapistName, sourceType, from, to)

\* Mutant: the source cell is cleared before the room window is checked.
onDropCellClearsFirst(prev, therapistName, sourceType, from, to) ==
    LET cleared ==
            IF sourceType = "cell" /\ from # to
            THEN [prev EXCEPT ![from[1]][from[2]][from[3]] = ""]
            ELSE prev
    IN  IF isUHCBlocked(to[1], to[2], to[3])
        THEN cleared
        ELSE [cleared EXCEPT ![to[1]][to[2]][to[3]] = therapistName]

\* Mutant: a drop is validated like an assignment of the generator: refused on
\* a WFH or unavailable day or slot, or when the person already holds a room in
\* that slot.
onDropCellChecksRules(prev, therapistName, sourceType, from, to) ==
    IF isUHCBlocked(to[1], to[2], to[3])
    THEN prev
    ELSE IF therapistName = ""
         THEN prev
         ELSE IF \/ therapistName \notin DOMAIN therapistRules
                 \/ /\ to[1] \notin therapistRules[therapistName].wfhDays
                    /\ to[1] \in therapistRules[therapistName].availableDays
                    /\ to[2] \in therapistRules[therapistName].availableSlots
                    /\ \A r \in DOMAIN prev[to[1]][to[2]] \ {to[3]} :
                           prev[to[1]][to[2]][r] # therapistName
              THEN dropUpdater(prev, therapistName, sourceType, from, to)
              ELSE prev

\* onDropCell as a function of the grid: the grid it leaves behind.
onDropCell(prev, therapistName, sourceType, from, to) ==
    IF isUHCBlocked(to[1], to[2], to[3])
    THEN prev
    ELSE IF therapistName = ""
         THEN prev
         ELSE dropUpdater(prev, therapistName, sourceType, from, to)

\* Mutant: rule 4 (same-slot exclusivity) left out.
canAssignWithoutSameSlot(therapist, day, slot, room, currentDayAssignments) ==
    LET rules == therapistRules[therapist]
        otherSlot == IF slot = "AM" THEN "PM" ELSE "AM"
    IN  /\ ~isUHCBlocked(day, slot, room)
        /\ day \notin rules.wfhDays
        /\ day \in rules.availableDays
        /\ slot \in rules.availableSlots
        /\ ~(rules.maxConsecutiveSlotsPerDay = 1
               /\ currentDayAssignments[therapist][otherSlot])

\* Mutant: rule 1 (WFH) left out, so availableDays decides alone.
canAssignWithoutWfh(therapist, day, slot, room, currentDayAssignments) ==
    LET rules == therapistRules[therapist]
        otherSlot == IF slot = "AM" THEN "PM" ELSE "AM"
    IN  /\ ~isUHCBlocked(day, slot, room)
        /\ day \in rules.availableDays
        /\ slot \in rules.availableSlots
        /\ ~(rules.maxConsecutiveSlotsPerDay = 1
               /\ currentDayAssignments[therapist][otherSlot])
        /\ ~currentDayAssignments[therapist][slot]

\* Mutant: rule 2 checks the day and forgets the slot.
canAssignWithoutSlotCheck(therapist, day, slot, room, currentDayAssignments) ==
    LET rules == therapistRules[therapist]
        otherSlot == IF slot = "AM" THEN "PM" ELSE "AM"
    IN  /\ ~isUHCBlocked(day, slot, room)
        /\ day \notin rules.wfhDays
        /\ day \in rules.availableDays
        /\ ~(rules.maxConsecutiveSlotsPerDay = 1
               /\ currentDayAssignments[therapist][otherSlot])
        /\ ~currentDayAssignments[therapist][slot]

\* Mutant: rule 3 (consecutive cap) left out.
canAssignWithoutCap(therapist, day, slot, room, currentDayAssignments) ==
    LET rules == therapistRules[therapist]
    IN  /\ ~isUHCBlocked(day, slot, room)
        /\ day \notin rules.wfhDays
        /\ day \in rules.availableDays
        /\ slot \in rules.availableSlots
        /\ ~currentDayAssignments[therapist][slot]

\* canAssignTherapist, reading the rules in therapistRules.
\* Mutant: the copy of the room window inside canAssignTherapist has lost its
\* Wed AM case and differs from isUHCBlocked.
canAssignWindowThuOnly(therapist, day, slot, room, currentDayAssignments) ==
    LET rules == therapistRules[therapist]
        otherSlot == IF slot = "AM" THEN "PM" ELSE "AM"
    IN  IF room = "UHC" /\ ~(day = "Thu" /\ slot = "PM") THEN FALSE
        ELSE IF day \in rules.wfhDays THEN FALSE
        ELSE IF day \notin rules.availableDays \/ slot \notin rules.availableSlots
             THEN FALSE
        ELSE IF /\ rules.maxConsecutiveSlotsPerDay = 1
                /\ currentDayAssignments[therapist][otherSlot]
             THEN FALSE
        ELSE IF currentDayAssignments[therapist][slot] THEN FALSE
        ELSE TRUE

\* Mutant: rule 3 is applied whatever the person's cap is.
canAssignCapForAll(therapist, day, slot, room, currentDayAssignments) ==
    LET rules == therapistRules[therapist]
        otherSlot == IF slot = "AM" THEN "PM" ELSE "AM"
    IN  IF isUHCBlocked(day, slot, room) THEN FALSE
        ELSE IF day \in rules.wfhDays THEN FALSE
        ELSE IF day \notin rules.availableDays \/ slot \notin rules.availableSlots
             THEN FALSE
        ELSE IF currentDayAssignments[therapist][otherSlot] THEN FALSE
        ELSE IF currentDayAssignments[therapist][slot] THEN FALSE
        ELSE TRUE

canAssignTherapist(therapist, day, slot, room, currentDayAssignments) ==
    LET rules == therapistRules[therapist]
        otherSlot == IF slot = "AM" THEN "PM" ELSE "AM"
    IN  IF isUHCBlocked(day, slot, room) THEN FALSE
        ELSE IF day \in rules.wfhDays THEN FALSE
        ELSE IF day \notin rules.availableDays \/ slot \notin rules.availableSlots
             THEN FALSE
        ELSE IF /\ rules.maxConsecutiveSlotsPerDay = 1
                /\ currentDayAssignments[therapist][otherSlot]
             THEN FALSE
        ELSE IF currentDayAssignments[therapist][slot] THEN FALSE
        ELSE TRUE

\* canAssignTherapist throws a TypeError: it reaches `.includes` on a rule
\* field that is undefined.
canAssignThrows(therapist, day, slot, room) ==
    LET rules == therapistRules[therapist]
    IN  IF isUHCBlocked(day, slot, room) THEN FALSE
        ELSE IF "wfhDays" \notin DOMAIN rules THEN TRUE
        ELSE IF day \in rules.wfhDays THEN FALSE
        ELSE IF "availableDays" \notin DOMAIN rules THEN TRUE
        ELSE IF day \notin rules.availableDays THEN FALSE
        ELSE "availableSlots" \notin DOMAIN rules

\* The scan of a cell calls canAssignTherapist for every therapist, so it
\* throws when any of the calls does.
scanThrows(day, slot, room) ==
    \E t \in Therapists : canAssignThrows(t, day, slot, room)

\* Mutant: the scan always starts at the head of the list.
scanFromZero(cursor) == therapists

\* The scan order of one cell: therapists[(lastAssignedIndex + i) % length].
scanOrder(cursor) ==
    [i \in 1..Len(therapists) |->
        therapists[((cursor + (i - 1)) % Len(therapists)) + 1]]

\* eligibleTherapists before the sort: the eligible ones in scan order, scored.
\* Mutant: the score is the plain sum, total assignments are not weighted.
eligibleUnweighted(cursor, day, slot, room, currentDayAssignments, totals, usage) ==
    LET order == scanOrder(cursor)
        ok(t) == canAssignTherapist(t, day, slot, room, currentDayAssignments)
        scored == [i \in 1..Len(order) |->
                     [therapist |-> order[i],
                      score |-> totals[order[i]] + usage[order[i]][room]]]
    IN  SelectSeq(scored, LAMBDA e : ok(e.therapist))

\* Mutant: the scan loop starts at i = 1, the person at the cursor is never
\* looked at.
eligibleSkippingFirst(cursor, day, slot, room, currentDayAssignments, totals, usage) ==
    LET order == Tail(scanOrder(cursor))
        ok(t) == canAssignTherapist(t, day, slot, room, currentDayAssignments)
        scored == [i \in 1..Len(order) |->
                     [therapist |-> order[i],
                      score |-> totals[order[i]] * 1000 + usage[order[i]][room]]]
    IN  SelectSeq(scored, LAMBDA e : ok(e.therapist))

eligibleTherapists(cursor, day, slot, room, currentDayAssignments, totals, usage) ==
    LET order == scanOrder(cursor)
        ok(t) == canAssignTherapist(t, day, slot, room, currentDayAssignments)
        scored == [i \in 1..Len(order) |->
                     [therapist |-> order[i],
                      score |-> totals[order[i]] * 1000 + usage[order[i]][room]]]
    IN  SelectSeq(scored, LAMBDA e : ok(e.therapist))

\* Mutant: the comparator is reversed (b.score - a.score), the highest score
\* wins.
sortedDescendingFirst(eligible) ==
    LET i == CHOOSE k \in 1..Len(eligible) :
                 \A j \in 1..Len(eligible) :
                     \/ eligible[k].score > eligible[j].score
                     \/ eligible[k].score = eligible[j].score /\ k <= j
    IN  eligible[i]

\* Mutant: the sort is left out, the first eligible person in scan order wins.
firstInScanOrder(eligible) == eligible[1]

\* eligibleTherapists.sort((a, b) => a.score - b.score)[0]: the sort is stable,
\* so the first of the lowest-scored entries in scan order.
sortedFirst(eligible) ==
    LET i == CHOOSE k \in 1..Len(eligible) :
                 \A j \in 1..Len(eligible) :
                     \/ eligible[k].score < eligible[j].score
                     \/ eligible[k].score = eligible[j].score /\ k <= j
    IN  eligible[i]

----------------------------------------------------------------------------
(* The stored schedule.  A JSON text is the sequence of the members        *)
(* <<key, value>> of its object in the order they were written; the value  *)
(* of a member is again such a sequence, or a string at the innermost      *)
(* level.  JSON.stringify writes the keys of an object in insertion order, *)
(* which for every grid of the program is the order of days, slots and     *)
(* rooms; keys of stored objects that are not configured come last.        *)

staleDay == "Sat"

staleSlot == "EVE"

staleRoom == "Room Z"

dayKeyOrder == Append(days, staleDay)

slotKeyOrder == Append(slots, staleSlot)

roomKeyOrder == Append(rooms, staleRoom)

\* Object.keys(obj), given the order the keys were inserted in.
keysOf(obj, order) == SelectSeq(order, LAMBDA k : k \in DOMAIN obj)

\* JSON.stringify of a Day -> Slot -> Room -> string object.
jsonStringify(obj) ==
    LET roomsText(o) ==
            LET ks == keysOf(o, roomKeyOrder)
            IN  [i \in 1..Len(ks) |-> <<ks[i], o[ks[i]]>>]
        slotsText(o) ==
            LET ks == keysOf(o, slotKeyOrder)
            IN  [i \in 1..Len(ks) |-> <<ks[i], roomsText(o[ks[i]])>>]
        ks == keysOf(obj, dayKeyOrder)
    IN  [i \in 1..Len(ks) |-> <<ks[i], slotsText(obj[ks[i]])>>]

\* The keys of the members of a JSON object text.
memberKeys(text) == {text[i][1] : i \in 1..Len(text)}

\* The value JSON.parse gives a key: that of its last member.
memberValue(text, key) ==
    LET i == CHOOSE k \in 1..Len(text) :
                 /\ text[k][1] = key
                 /\ \A j \in (k + 1)..Len(text) : text[j][1] # key
    IN  text[i][2]

\* JSON.parse of the text of a Day -> Slot -> Room -> string object.
jsonParse(text) ==
    [day \in memberKeys(text) |->
        LET slotsText == memberValue(text, day)
        IN  [slot \in memberKeys(slotsText) |->
                LET roomsText == memberValue(slotsText, slot)
                IN  [room \in memberKeys(roomsText) |-> memberValue(roomsText, room)]]]

\* localStorage.getItem gives null: nothing is stored under the id, or the
\* URL has no id.
noEntry == [present |-> FALSE, text |-> <<>>]

entry(text) == [present |-> TRUE, text |-> text]

\* The grid the load effect sets on mount.
loadedSchedule(item) ==
    IF item.present THEN normalizeSchedule(jsonParse(item.text))
    ELSE normalizeSchedule(emptyBlob)

----------------------------------------------------------------------------
(* The stored rules.  A rule entry is a record that may lack fields.       *)

\* The defaulting of one stored entry: wfhDays, maxConsecutiveSlotsPerDay and
\* availableSlots are filled in when missing; availableDays is not looked at.
withDefaults(stored_entry) ==
    [f \in DOMAIN stored_entry \cup
            {"wfhDays", "maxConsecutiveSlotsPerDay", "availableSlots"} |->
        IF f \in DOMAIN stored_entry THEN stored_entry[f]
        ELSE IF f = "wfhDays" THEN {}
        ELSE IF f = "maxConsecutiveSlotsPerDay" THEN 2
        ELSE Slots]

\* The initializer of therapistRules, given the parsed "therapist_rules" item.
loadRules(parsedRules) ==
    [t \in DOMAIN parsedRules \cup Therapists |->
        IF t \notin Therapists THEN parsedRules[t]
        ELSE IF t \notin DOMAIN parsedRules THEN initializeDefaultAvailability[t]
        ELSE withDefaults(parsedRules[t])]

----------------------------------------------------------------------------
(* Rule editing.                                                           *)

\* Mutant: unchecking a WFH box puts the day back into availableDays.
handleAvailabilityWfhRestores(prevRules, therapistName, type, value, isChecked) ==
    LET cur == prevRules[therapistName]
        new ==
            IF type = "day"
            THEN IF isChecked
                 THEN [cur EXCEPT !.availableDays = cur.availableDays \cup {value},
                                  !.wfhDays = cur.wfhDays \ {value}]
                 ELSE [cur EXCEPT !.availableDays = cur.availableDays \ {value}]
            ELSE IF type = "wfh"
            THEN IF isChecked
                 THEN [cur EXCEPT !.wfhDays = cur.wfhDays \cup {value},
                                  !.availableDays = cur.availableDays \ {value}]
                 ELSE [cur EXCEPT !.wfhDays = cur.wfhDays \ {value},
                                  !.availableDays = cur.availableDays \cup {value}]
            ELSE IF type = "slot"
            THEN IF isChecked
                 THEN [cur EXCEPT !.availableSlots = cur.availableSlots \cup {value}]
                 ELSE [cur EXCEPT !.availableSlots = cur.availableSlots \ {value}]
            ELSE cur
    IN  [prevRules EXCEPT ![therapistName] = new]

\* Mutant: checking a box adds the day to its own list and leaves the other
\* list alone.
handleAvailabilityNoExclusion(prevRules, therapistName, type, value, isChecked) ==
    LET cur == prevRules[therapistName]
        new ==
            IF type = "day"
            THEN IF isChecked
                 THEN [cur EXCEPT !.availableDays = cur.availableDays \cup {value}]
                 ELSE [cur EXCEPT !.availableDays = cur.availableDays \ {value}]
            ELSE IF type = "wfh"
            THEN IF isChecked
                 THEN [cur EXCEPT !.wfhDays = cur.wfhDays \cup {value}]
                 ELSE [cur EXCEPT !.wfhDays = cur.wfhDays \ {value}]
            ELSE IF type = "slot"
            THEN IF isChecked
                 THEN [cur EXCEPT !.availableSlots = cur.availableSlots \cup {value}]
                 ELSE [cur EXCEPT !.availableSlots = cur.availableSlots \ {value}]
            ELSE cur
    IN  [prevRules EXCEPT ![therapistName] = new]

handleAvailabilityChange(prevRules, therapistName, type, value, isChecked) ==
    LET cur == prevRules[therapistName]
        new ==
            IF type = "day"
            THEN IF isChecked
                 THEN [cur EXCEPT !.availableDays = cur.availableDays \cup {value},
                                  !.wfhDays = cur.wfhDays \ {value}]
                 ELSE [cur EXCEPT !.availableDays = cur.availableDays \ {value}]
            ELSE IF type = "wfh"
            THEN IF isChecked
                 THEN [cur EXCEPT !.wfhDays = cur.wfhDays \cup {value},
                                  !.availableDays = cur.availableDays \ {value}]
                 ELSE [cur EXCEPT !.wfhDays = cur.wfhDays \ {value}]
            ELSE IF type = "slot"
            THEN IF isChecked
                 THEN [cur EXCEPT !.availableSlots = cur.availableSlots \cup {value}]
                 ELSE [cur EXCEPT !.availableSlots = cur.availableSlots \ {value}]
            ELSE cur
    IN  [prevRules EXCEPT ![therapistName] = new]

handleMaxConsecutiveChange(prevRules, therapistName, value) ==
    [prevRules EXCEPT ![therapistName].maxConsecutiveSlotsPerDay = value]

\* The checked attribute of the rule checkbox the handler is attached to.
checkboxChecked(therapistName, type, value) ==
    IF type = "day" THEN value \in therapistRules[therapistName].availableDays
    ELSE IF type = "wfh" THEN value \in therapistRules[therapistName].wfhDays
    ELSE value \in therapistRules[therapistName].availableSlots

----------------------------------------------------------------------------
(* State shared by the actions.                                            *)

noCell == <<"", "", "">>

op(kind, name, from, to) ==
    IF opDetail
    THEN [kind |-> kind, name |-> name, from |-> from, to |-> to]
    ELSE [kind |-> kind, name |-> "", from |-> noCell, to |-> noCell]

freshDayAssignments == [t \in Therapists |-> [AM |-> FALSE, PM |-> FALSE]]

zeroTotals == [t \in Therapists |-> 0]

zeroRoomUsage == [t \in Therapists |-> [r \in Rooms |-> 0]]

firstPos == [d |-> 1, s |-> 1, r |-> 1]

\* Mutant: the room loop stops one room early.
nextPosSkipsLastRoom(pos) ==
    IF pos.r + 1 < Len(rooms) THEN [pos EXCEPT !.r = pos.r + 1]
    ELSE IF pos.s < Len(slots) THEN [pos EXCEPT !.s = pos.s + 1, !.r = 1]
    ELSE [d |-> pos.d + 1, s |-> 1, r |-> 1]

\* The loop indices after one more iteration of the innermost loop.
nextPos(pos) ==
    IF pos.r < Len(rooms) THEN [pos EXCEPT !.r = pos.r + 1]
    ELSE IF pos.s < Len(slots) THEN [pos EXCEPT !.s = pos.s + 1, !.r = 1]
    ELSE [d |-> pos.d + 1, s |-> 1, r |-> 1]

\* Mutant: dayAssignments is declared once before the day loop and is never
\* cleared.
dayAssignmentsCarried(pos, next, current) == current

\* dayAssignments as the next iteration finds it: the head of the day loop
\* replaces it by an all-false table whenever the iteration starts a new day.
dayAssignmentsAt(pos, next, current) ==
    IF next.d # pos.d THEN freshDayAssignments ELSE current

\* The locals of generateAutoRoster do not exist outside a pass.
NoLocals ==
    /\ newSchedule = normalizeSchedule(emptyBlob)
    /\ therapistTotalAssignments = zeroTotals
    /\ therapistRoomUsage = zeroRoomUsage
    /\ dayAssignments = freshDayAssignments
    /\ loopPos = firstPos
    /\ startIndex = 0
    /\ visited = <<>>

DropLocals ==
    /\ newSchedule' = normalizeSchedule(emptyBlob)
    /\ therapistTotalAssignments' = zeroTotals
    /\ therapistRoomUsage' = zeroRoomUsage
    /\ dayAssignments' = freshDayAssignments
    /\ loopPos' = firstPos
    /\ startIndex' = 0
    /\ visited' = <<>>

\* The pass has run its loops to the end and has not published yet.
PassComplete == pc = "generating" /\ loopPos.d > Len(days)

\* What a finished pass has produced.
passResult ==
    [grid |-> newSchedule,
     totals |-> therapistTotalAssignments,
     usage |-> therapistRoomUsage,
     cursor |-> lastAssignedIndex]

----------------------------------------------------------------------------
(* generateAutoRoster.                                                     *)

\* window.confirm answered with Cancel.
GenerateDeclined ==
    /\ pc = "idle"
    /\ lastOp' = op("generateDeclined", "", noCell, noCell)
    /\ UNCHANGED <<config, stored, schedule, therapistRules, therapistSlotCounts,
                   lastAssignedIndex, pc, genLocals, genLog, ruleEdits>>

\* Mutant: every run puts the cursor back on the first person.
GenerateStartResetsCursor ==
    /\ pc = "idle"
    /\ pc' = "generating"
    /\ newSchedule' = normalizeSchedule(emptyBlob)
    /\ therapistTotalAssignments' = zeroTotals
    /\ therapistRoomUsage' = zeroRoomUsage
    /\ dayAssignments' = freshDayAssignments
    /\ loopPos' = firstPos
    /\ lastAssignedIndex' = 0
    /\ startIndex' = 0
    /\ visited' = <<>>
    /\ lastOp' = op("generateStart", "", noCell, noCell)
    /\ UNCHANGED <<config, stored, schedule, therapistRules, therapistSlotCounts,
                   genLog, ruleEdits>>

\* Mutant: the running totals start from the displayed counts of the grid in
\* place instead of zero.
GenerateStartFromCounts ==
    /\ pc = "idle"
    /\ pc' = "generating"
    /\ newSchedule' = normalizeSchedule(emptyBlob)
    /\ therapistTotalAssignments' =
           [t \in Therapists |-> therapistSlotCounts[t].totalSlots]
    /\ therapistRoomUsage' =
           [t \in Therapists |-> therapistSlotCounts[t].roomDistribution]
    /\ dayAssignments' = freshDayAssignments
    /\ loopPos' = firstPos
    /\ startIndex' = lastAssignedIndex
    /\ visited' = <<>>
    /\ lastOp' = op("generateStart", "", noCell, noCell)
    /\ UNCHANGED <<config, stored, schedule, therapistRules, therapistSlotCounts,
                   lastAssignedIndex, genLog, ruleEdits>>

\* Mutant: the grid on display is emptied when the pass starts.
GenerateStartClearsGrid ==
    /\ pc = "idle"
    /\ pc' = "generating"
    /\ schedule' = normalizeSchedule(emptyBlob)
    /\ therapistSlotCounts' = calculateTherapistCounts(schedule')
    /\ newSchedule' = normalizeSchedule(emptyBlob)
    /\ therapistTotalAssignments' = zeroTotals
    /\ therapistRoomUsage' = zeroRoomUsage
    /\ dayAssignments' = freshDayAssignments
    /\ loopPos' = firstPos
    /\ startIndex' = lastAssignedIndex
    /\ visited' = <<>>
    /\ lastOp' = op("generateStart", "", noCell, noCell)
    /\ UNCHANGED <<config, stored, therapistRules, lastAssignedIndex, genLog, ruleEdits>>

\* window.confirm answered with OK: the locals are set up and the loops entered.
GenerateStart ==
    /\ pc = "idle"
    /\ pc' = "generating"
    /\ newSchedule' = normalizeSchedule(emptyBlob)
    /\ therapistTotalAssignments' = zeroTotals
    /\ therapistRoomUsage' = zeroRoomUsage
    /\ dayAssignments' = freshDayAssignments
    /\ loopPos' = firstPos
    /\ startIndex' = lastAssignedIndex
    /\ visited' = <<>>
    /\ lastOp' = op("generateStart", "", noCell, noCell)
    /\ UNCHANGED <<config, stored, schedule, therapistRules, therapistSlotCounts,
                   lastAssignedIndex, genLog, ruleEdits>>

\* One iteration of the innermost loop: the scan, the sort and the assignment.
GenerateCell ==
    /\ pc = "generating"
    /\ loopPos.d <= Len(days)
    /\ ~scanThrows(days[loopPos.d], slots[loopPos.s], rooms[loopPos.r])
    /\ LET day == days[loopPos.d]
           slot == slots[loopPos.s]
           room == rooms[loopPos.r]
           eligible == eligibleTherapists(lastAssignedIndex, day, slot, room,
                           dayAssignments, therapistTotalAssignments,
                           therapistRoomUsage)
           next == nextPos(loopPos)
       IN  /\ IF Len(eligible) > 0
              THEN LET assignedTherapist == sortedFirst(eligible).therapist
                       marked == [dayAssignments EXCEPT ![assignedTherapist][slot] = TRUE]
                   IN  /\ newSchedule' =
                              [newSchedule EXCEPT ![day][slot][room] = assignedTherapist]
                       /\ therapistTotalAssignments' =
                              [therapistTotalAssignments EXCEPT ![assignedTherapist] = @ + 1]
                       /\ therapistRoomUsage' =
                              [therapistRoomUsage EXCEPT ![assignedTherapist][room] = @ + 1]
                       /\ dayAssignments' = dayAssignmentsAt(loopPos, next, marked)
                       /\ lastAssignedIndex' = indexOf(assignedTherapist)
                       /\ lastOp' = op("generateCell", assignedTherapist, noCell,
                                       <<day, slot, room>>)
              ELSE /\ newSchedule' = [newSchedule EXCEPT ![day][slot][room] = ""]
                   /\ dayAssignments' = dayAssignmentsAt(loopPos, next, dayAssignments)
                   /\ lastOp' = op("generateCell", "", noCell, <<day, slot, room>>)
                   /\ UNCHANGED <<therapistTotalAssignments, therapistRoomUsage,
                                  lastAssignedIndex>>
           /\ visited' = Append(visited, <<day, slot, room>>)
           /\ loopPos' = next
    /\ UNCHANGED <<config, stored, schedule, therapistRules, therapistSlotCounts, pc,
                   startIndex, genLog, ruleEdits>>

\* The scan of the next cell throws: the handler is left by the exception,
\* setSchedule is not reached, and the cursor keeps what the pass wrote to it.
GenerateThrow ==
    /\ pc = "generating"
    /\ loopPos.d <= Len(days)
    /\ scanThrows(days[loopPos.d], slots[loopPos.s], rooms[loopPos.r])
    /\ pc' = "idle"
    /\ DropLocals
    /\ lastOp' = op("generateFailed", "", noCell,
                    <<days[loopPos.d], slots[loopPos.s], rooms[loopPos.r]>>)
    /\ UNCHANGED <<config, stored, schedule, therapistRules, therapistSlotCounts,
                   lastAssignedIndex, genLog, ruleEdits>>

\* setSchedule(newSchedule) and the recount effect it triggers.
publish ==
    /\ PassComplete
    /\ schedule' = newSchedule
    /\ therapistSlotCounts' = calculateTherapistCounts(newSchedule)
    /\ pc' = "idle"
    /\ DropLocals
    /\ lastOp' = op("generate", "", noCell, noCell)
    /\ UNCHANGED <<config, stored, therapistRules, lastAssignedIndex, ruleEdits>>

GenerateFinish ==
    /\ publish
    /\ UNCHANGED genLog

\* The same step, with the result kept in the log of finished passes.
GenerateFinishLogged ==
    /\ publish
    /\ genLog' = [c \in DOMAIN genLog \cup {startIndex} |->
                     IF c = startIndex THEN passResult ELSE genLog[c]]

----------------------------------------------------------------------------
(* Manual edits.                                                           *)

\* A therapist dragged from the list and dropped on a cell.
DropFromList ==
    /\ pc = "idle"
    /\ \E therapistName \in Therapists, to \in Cells :
          /\ schedule' = onDropCell(schedule, therapistName, "list", noCell, to)
          /\ lastOp' = op(IF isUHCBlocked(to[1], to[2], to[3])
                          THEN "dropRejected" ELSE "listDrop",
                          therapistName, noCell, to)
    /\ therapistSlotCounts' = calculateTherapistCounts(schedule')
    /\ UNCHANGED <<config, stored, therapistRules, lastAssignedIndex, pc, genLocals,
                   genLog, ruleEdits>>

\* The occupant of a cell dragged and dropped on a cell; an occupant of a
\* blocked cell is not draggable.
DropFromCell ==
    /\ pc = "idle"
    /\ \E from \in Cells, to \in Cells :
          LET therapistName == schedule[from[1]][from[2]][from[3]]
          IN  /\ therapistName # ""
              /\ ~isUHCBlocked(from[1], from[2], from[3])
              /\ schedule' = onDropCell(schedule, therapistName, "cell", from, to)
              /\ lastOp' = op(IF isUHCBlocked(to[1], to[2], to[3])
                              THEN "dropRejected"
                              ELSE IF from = to THEN "selfDrop" ELSE "move",
                              therapistName, from, to)
    /\ therapistSlotCounts' = calculateTherapistCounts(schedule')
    /\ UNCHANGED <<config, stored, therapistRules, lastAssignedIndex, pc, genLocals,
                   genLog, ruleEdits>>

\* Mutant: the clear button empties every room of the cell's slot.
ClearSlotClearsRow ==
    /\ pc = "idle"
    /\ \E c \in Cells :
          /\ schedule[c[1]][c[2]][c[3]] # ""
          /\ schedule' = [schedule EXCEPT ![c[1]][c[2]] = [r \in Rooms |-> ""]]
          /\ lastOp' = op("clear", "", noCell, c)
    /\ therapistSlotCounts' = calculateTherapistCounts(schedule')
    /\ UNCHANGED <<config, stored, therapistRules, lastAssignedIndex, pc, genLocals,
                   genLog, ruleEdits>>

\* The clear button of an occupied cell (or a double click on it).
ClearSlot ==
    /\ pc = "idle"
    /\ \E c \in Cells :
          /\ schedule[c[1]][c[2]][c[3]] # ""
          /\ schedule' = [schedule EXCEPT ![c[1]][c[2]][c[3]] = ""]
          /\ lastOp' = op("clear", "", noCell, c)
    /\ therapistSlotCounts' = calculateTherapistCounts(schedule')
    /\ UNCHANGED <<config, stored, therapistRules, lastAssignedIndex, pc, genLocals,
                   genLog, ruleEdits>>

\* Mutant: the reset forgets the stored entry and the URL and keeps the grid.
ResetScheduleKeepsGrid ==
    /\ pc = "idle"
    /\ schedule' = schedule
    /\ therapistSlotCounts' = calculateTherapistCounts(schedule')
    /\ stored' = noEntry
    /\ lastOp' = op("reset", "", noCell, noCell)
    /\ UNCHANGED <<config, therapistRules, lastAssignedIndex, pc, genLocals,
                   genLog, ruleEdits>>

\* resetSchedule, confirmed: the grid becomes normalizeSchedule({}), and the
\* stored entry and the id in the URL are removed.
ResetSchedule ==
    /\ pc = "idle"
    /\ schedule' = normalizeSchedule(emptyBlob)
    /\ therapistSlotCounts' = calculateTherapistCounts(schedule')
    /\ stored' = noEntry
    /\ lastOp' = op("reset", "", noCell, noCell)
    /\ UNCHANGED <<config, therapistRules, lastAssignedIndex, pc, genLocals,
                   genLog, ruleEdits>>

ResetDeclined ==
    /\ pc = "idle"
    /\ lastOp' = op("resetDeclined", "", noCell, noCell)
    /\ UNCHANGED <<config, stored, schedule, therapistRules, therapistSlotCounts,
                   lastAssignedIndex, pc, genLocals, genLog, ruleEdits>>

----------------------------------------------------------------------------
(* Saving, and reloading the page.                                         *)

\* saveSchedule: the grid is written under a fresh id, which the URL then holds.
SaveSchedule ==
    /\ pc = "idle"
    /\ stored' = entry(jsonStringify(schedule))
    /\ lastOp' = op("save", "", noCell, noCell)
    /\ UNCHANGED <<config, schedule, therapistRules, therapistSlotCounts,
                   lastAssignedIndex, pc, genLocals, genLog, ruleEdits>>

\* The page is loaded again: the state initializers and the load effect run.
\* The "therapist_rules" item holds the rules in force, the save effect having
\* written them at their last change.
Reload ==
    /\ pc = "idle"
    /\ schedule' = loadedSchedule(stored)
    /\ therapistSlotCounts' = calculateTherapistCounts(schedule')
    /\ therapistRules' = loadRules(therapistRules)
    /\ lastAssignedIndex' = 0
    /\ lastOp' = op(IF lastOp.kind = "save" THEN "reloadSaved"
                    ELSE IF stored.present THEN "load" ELSE "mount",
                    "", noCell, noCell)
    /\ UNCHANGED <<config, stored, pc, genLocals, genLog, ruleEdits>>

----------------------------------------------------------------------------
(* Rule edits.  A change of the rules empties the log of finished passes,  *)
(* which holds results under the current rules only.                       *)

HandleAvailabilityChange ==
    /\ pc = "idle"
    /\ ruleEdits < MaxRuleEdits
    /\ \E therapistName \in Therapists, type \in {"day", "wfh", "slot"} :
          \E value \in (IF type = "slot" THEN Slots ELSE Days) :
             /\ therapistRules' =
                    handleAvailabilityChange(therapistRules, therapistName, type, value,
                        ~checkboxChecked(therapistName, type, value))
             /\ lastOp' = op(type, therapistName, noCell, noCell)
    /\ ruleEdits' = ruleEdits + 1
    /\ genLog' = <<>>
    /\ UNCHANGED <<config, stored, schedule, therapistSlotCounts, lastAssignedIndex, pc,
                   genLocals>>

HandleMaxConsecutiveChange ==
    /\ pc = "idle"
    /\ ruleEdits < MaxRuleEdits
    /\ \E therapistName \in Therapists, value \in {1, 2} :
          /\ value # therapistRules[therapistName].maxConsecutiveSlotsPerDay
          /\ therapistRules' =
                 handleMaxConsecutiveChange(therapistRules, therapistName, value)
          /\ lastOp' = op("cap", therapistName, noCell, noCell)
    /\ ruleEdits' = ruleEdits + 1
    /\ genLog' = <<>>
    /\ UNCHANGED <<config, stored, schedule, therapistSlotCounts, lastAssignedIndex, pc,
                   genLocals>>

----------------------------------------------------------------------------
(* Specifications.                                                         *)

\* Every rule set over the configured days and slots.
RuleSets ==
    [Therapists ->
        [availableDays : SUBSET Days,
         wfhDays : SUBSET Days,
         availableSlots : SUBSET Slots,
         maxConsecutiveSlotsPerDay : {1, 2}]]

\* The state after mount when the load effect has read `blob`.
MountedWith(blob) ==
    /\ schedule = normalizeSchedule(blob)
    /\ therapistSlotCounts = calculateTherapistCounts(schedule)
    /\ pc = "idle"
    /\ NoLocals
    /\ genLog = <<>>
    /\ ruleEdits = 0
    /\ lastOp = op(IF blob = emptyBlob THEN "mount" ELSE "load", "", noCell, noCell)

\* The state after mount with no schedule id in the URL.
Mounted == stored = noEntry /\ MountedWith(emptyBlob)

\* The application started with nothing stored: default rules, cursor 0.
Init ==
    /\ days \in {wedOnly, thuOnly}
    /\ rooms = smallRooms
    /\ therapists = smallTherapists
    /\ opDetail = FALSE
    /\ therapistRules = initializeDefaultAvailability
    /\ lastAssignedIndex = 0
    /\ Mounted

Next ==
    \/ GenerateDeclined
    \/ GenerateStart
    \/ GenerateCell
    \/ GenerateFinish
    \/ DropFromList
    \/ DropFromCell
    \/ ClearSlot
    \/ ResetSchedule
    \/ ResetDeclined
    \/ HandleAvailabilityChange
    \/ HandleMaxConsecutiveChange

Spec == Init /\ [][Next]_vars

\* The generator alone, under every rule set and from every cursor value.
InitGen ==
    /\ days = smallDays
    /\ rooms = smallRooms
    /\ therapists = smallTherapists
    /\ opDetail = TRUE
    /\ therapistRules \in RuleSets
    /\ lastAssignedIndex \in 0..(Len(therapists) - 1)
    /\ Mounted

NextGen ==
    \/ GenerateDeclined
    \/ GenerateStart
    \/ GenerateCell
    \/ GenerateFinish

SpecGen == InitGen /\ [][NextGen]_vars

\* The grid and its manual edits on the two-day configuration, default rules.
InitEdit ==
    /\ days = smallDays
    /\ rooms = smallRooms
    /\ therapists = smallTherapists
    /\ opDetail = TRUE
    /\ therapistRules = initializeDefaultAvailability
    /\ lastAssignedIndex = 0
    /\ Mounted

NextEdit ==
    \/ GenerateDeclined
    \/ GenerateStart
    \/ GenerateCell
    \/ GenerateFinish
    \/ DropFromList
    \/ DropFromCell
    \/ ClearSlot
    \/ ResetSchedule
    \/ ResetDeclined

SpecEdit == InitEdit /\ [][NextEdit]_vars

\* Every handler on one day, with the results of finished passes logged.
InitDet ==
    /\ days = wedOnly
    /\ rooms = smallRooms
    /\ therapists = smallTherapists
    /\ opDetail = FALSE
    /\ therapistRules = initializeDefaultAvailability
    /\ lastAssignedIndex = 0
    /\ Mounted

NextDet ==
    \/ GenerateDeclined
    \/ GenerateStart
    \/ GenerateCell
    \/ GenerateFinishLogged
    \/ DropFromList
    \/ DropFromCell
    \/ ClearSlot
    \/ ResetSchedule
    \/ ResetDeclined
    \/ HandleAvailabilityChange
    \/ HandleMaxConsecutiveChange

SpecDet == InitDet /\ [][NextDet]_vars

\* The rule sets that give every person the same rule.
UniformRuleSets == {rs \in RuleSets : \A t, u \in Therapists : rs[t] = rs[u]}

\* The manual edits on one day under every uniform rule set: the rules are
\* there to be ignored by the edits.
InitManual ==
    /\ days = wedOnly
    /\ rooms = smallRooms
    /\ therapists = smallTherapists
    /\ opDetail = TRUE
    /\ therapistRules \in UniformRuleSets
    /\ lastAssignedIndex = 0
    /\ Mounted

SpecManual == InitManual /\ [][NextEdit]_vars

\* The rules a person is given in the scan specification: unrestricted, capped
\* at one slot a day, WFH on Wed, mornings only, Thu only and capped, never.
ruleMenu ==
    {[availableDays |-> Days, wfhDays |-> {}, availableSlots |-> Slots,
      maxConsecutiveSlotsPerDay |-> 2],
     [availableDays |-> Days, wfhDays |-> {}, availableSlots |-> Slots,
      maxConsecutiveSlotsPerDay |-> 1],
     [availableDays |-> Days, wfhDays |-> {"Wed"}, availableSlots |-> Slots,
      maxConsecutiveSlotsPerDay |-> 2],
     [availableDays |-> Days, wfhDays |-> {}, availableSlots |-> {"AM"},
      maxConsecutiveSlotsPerDay |-> 2],
     [availableDays |-> {"Thu"}, wfhDays |-> {}, availableSlots |-> Slots,
      maxConsecutiveSlotsPerDay |-> 1],
     [availableDays |-> {}, wfhDays |-> {}, availableSlots |-> Slots,
      maxConsecutiveSlotsPerDay |-> 2]}

\* The generator over three rooms and three people, each person with any rule
\* of the menu, from every cursor value.
InitScan ==
    /\ days = smallDays
    /\ rooms = scanRooms
    /\ therapists = scanTherapists
    /\ opDetail = TRUE
    /\ therapistRules \in [Therapists -> ruleMenu]
    /\ lastAssignedIndex \in 0..(Len(therapists) - 1)
    /\ Mounted

SpecScan == InitScan /\ [][NextGen]_vars

\* The rule sets in which no person has a day both in the office and at home.
ExclusiveRuleSets ==
    {rs \in RuleSets : \A t \in Therapists : rs[t].availableDays \cap rs[t].wfhDays = {}}

\* The rule checkboxes and cap selectors alone, from every such rule set.
InitRuleEdit ==
    /\ days = smallDays
    /\ rooms = smallRooms
    /\ therapists = smallTherapists
    /\ opDetail = TRUE
    /\ therapistRules \in ExclusiveRuleSets
    /\ lastAssignedIndex = 0
    /\ Mounted

NextRuleEdit ==
    \/ HandleAvailabilityChange
    \/ HandleMaxConsecutiveChange

SpecRuleEdit == InitRuleEdit /\ [][NextRuleEdit]_vars

\* One page session on one day, from startup: every handler of the page, with
\* the arguments of the last handler kept.
InitSession ==
    /\ days = wedOnly
    /\ rooms = smallRooms
    /\ therapists = smallTherapists
    /\ opDetail = TRUE
    /\ therapistRules = initializeDefaultAvailability
    /\ lastAssignedIndex = 0
    /\ Mounted

SpecSession == InitSession /\ [][Next]_vars

\* The generator over the shipped configuration (five days, nine rooms, ten
\* people) under the default rules, from every cursor value.
InitShipped ==
    /\ days = shippedDays
    /\ rooms = shippedRooms
    /\ therapists = shippedTherapists
    /\ opDetail = FALSE
    /\ therapistRules = initializeDefaultAvailability
    /\ lastAssignedIndex \in 0..(Len(therapists) - 1)
    /\ Mounted

SpecShipped == InitShipped /\ [][NextGen]_vars

\* The generator over the shipped five-day week with two rooms and two
\* people, each person with any rule of the menu, from every cursor value.
InitWeek ==
    /\ days = shippedDays
    /\ rooms = weekRooms
    /\ therapists = smallTherapists
    /\ opDetail = FALSE
    /\ therapistRules \in [Therapists -> ruleMenu]
    /\ lastAssignedIndex \in 0..(Len(therapists) - 1)
    /\ Mounted

SpecWeek == InitWeek /\ [][NextGen]_vars

\* The fields of a rule entry.
ruleFields == {"availableDays", "wfhDays", "availableSlots", "maxConsecutiveSlotsPerDay"}

\* A complete rule entry as an older version may have stored it.
storedRule ==
    [availableDays |-> Days,
     wfhDays |-> {},
     availableSlots |-> {"AM"},
     maxConsecutiveSlotsPerDay |-> 1]

\* Stored rules blobs: an entry for some of the configured people, each entry
\* with some of the four fields.
storedRuleBlobs ==
    UNION {[P -> {[f \in F |-> storedRule[f]] : F \in SUBSET ruleFields}] :
              P \in SUBSET Therapists}

\* The application mounted with a "therapist_rules" item in localStorage.
InitRules ==
    /\ days = wedOnly
    /\ rooms = smallRooms
    /\ therapists = smallTherapists
    /\ opDetail = TRUE
    /\ therapistRules \in {loadRules(blob) : blob \in storedRuleBlobs}
    /\ lastAssignedIndex = 0
    /\ Mounted

NextRules ==
    \/ GenerateDeclined
    \/ GenerateStart
    \/ GenerateCell
    \/ GenerateThrow
    \/ GenerateFinish

SpecRules == InitRules /\ [][NextRules]_vars

\* The balanced-load scenario: the shipped people and days, four unrestricted
\* rooms, the default rules (everybody available, no WFH, cap 2), any cursor.
InitBalanced ==
    /\ days = shippedDays
    /\ rooms = unrestrictedRooms
    /\ therapists = shippedTherapists
    /\ opDetail = FALSE
    /\ therapistRules = initializeDefaultAvailability
    /\ lastAssignedIndex \in 0..(Len(therapists) - 1)
    /\ Mounted

SpecBalanced == InitBalanced /\ [][NextGen]_vars

\* Stored grid blobs: the restrictions of two value patterns to some of the
\* keys, current ones and stale ones (a day, a slot and a room that are not
\* configured, and a name that is not a configured therapist).
blobDayKeys == Days \cup {"Sat"}

blobSlotKeys == Slots \cup {"EVE"}

blobRoomKeys == Rooms \cup {"Room Z"}

\* The key sets of the stored blobs: any of the configured keys at each level,
\* with the stale keys at all three levels or at none.
blobKeySets ==
    {ks \in (SUBSET blobDayKeys) \X (SUBSET blobSlotKeys) \X (SUBSET blobRoomKeys) :
        /\ (staleDay \in ks[1]) = (staleSlot \in ks[2])
        /\ (staleSlot \in ks[2]) = (staleRoom \in ks[3])}

blobByRoom(day, slot, room) ==
    IF room = "Room A" THEN "Dominic Yeo"
    ELSE IF room = "UHC" THEN "Kirsty Png"
    ELSE "Former Staff"

blobBySlot(day, slot, room) ==
    IF slot = "AM" THEN "Former Staff"
    ELSE IF slot = "PM" THEN ""
    ELSE "Kirsty Png"

storedBlobs ==
    UNION {
        { [day \in D |-> [slot \in S |-> [room \in R |-> blobByRoom(day, slot, room)]]],
          [day \in D |-> [slot \in S |-> [room \in R |-> blobBySlot(day, slot, room)]]] } :
        <<D, S, R>> \in blobKeySets }

\* The application mounted with a schedule id whose stored blob is read.
InitLoad ==
    /\ days = wedOnly
    /\ rooms = smallRooms
    /\ therapists = smallTherapists
    /\ opDetail = FALSE
    /\ therapistRules = initializeDefaultAvailability
    /\ lastAssignedIndex = 0
    /\ \E blob \in storedBlobs :
          /\ stored = entry(jsonStringify(blob))
          /\ MountedWith(jsonParse(stored.text))

NextLoad ==
    \/ GenerateDeclined
    \/ GenerateStart
    \/ GenerateCell
    \/ GenerateFinish
    \/ DropFromList
    \/ DropFromCell
    \/ ClearSlot
    \/ ResetSchedule
    \/ ResetDeclined
    \/ SaveSchedule
    \/ Reload

SpecLoad == InitLoad /\ [][NextLoad]_vars

----------------------------------------------------------------------------
(* Properties.                                                             *)

cellOf(grid, c) == grid[c[1]][c[2]][c[3]]

\* The grid generateAutoRoster has just published is on display.
Generated == pc = "idle" /\ lastOp.kind = "generate"

\* C1: after generateAutoRoster, under every rule set and from every cursor
\* value, no person is double-booked: for each person, day and slot at most
\* one room holds that person.
C1_NoDoubleBooking ==
    Generated =>
        \A p \in Therapists, d \in Days, s \in Slots :
            Cardinality({r \in Rooms : schedule[d][s][r] = p}) <= 1

\* A generated grid in which a person who is under no other restriction holds
\* Room A on Wed AM while the open UHC cell of that slot stayed empty.
C1_Witness ==
    /\ Generated
    /\ \E p \in Therapists :
          /\ schedule["Wed"]["AM"]["Room A"] = p
          /\ schedule["Wed"]["AM"]["UHC"] = ""
          /\ therapistRules[p].maxConsecutiveSlotsPerDay = 2
          /\ "Wed" \notin therapistRules[p].wfhDays

\* The (day, slot) pairs in which UHC may be used.
uhcWindow == {<<"Wed", "AM">>, <<"Thu", "PM">>}

\* C2: in every state reachable from the empty grid by generation runs (under
\* the rules in force), list drops, moves, clears and resets, every UHC cell
\* outside {(Wed, AM), (Thu, PM)} is empty, in the grid on display and in the
\* grid a pass is building.
C2_RoomWindow ==
    \A d \in Days, s \in Slots :
        <<d, s>> \notin uhcWindow =>
            /\ schedule[d][s]["UHC"] = ""
            /\ newSchedule[d][s]["UHC"] = ""

\* A drop on the closed UHC cell has just been rejected, after rule edits,
\* while the open UHC cell is occupied.
C2_Witness ==
    /\ lastOp.kind = "dropRejected"
    /\ ruleEdits > 0
    /\ \E d \in Days, s \in Slots :
          <<d, s>> \in uhcWindow /\ schedule[d][s]["UHC"] # ""

\* C3: a drop (from the list or from a cell) on a UHC cell outside the window
\* leaves the whole grid unchanged, and for a drop from a cell the source cell
\* still holds the dragged person.
C3_RejectedDropKeepsGrid ==
    [][lastOp'.kind = "dropRejected" =>
          /\ schedule' = schedule
          /\ lastOp'.from # noCell => cellOf(schedule', lastOp'.from) = lastOp'.name]_vars

\* A person dragged from a cell onto a closed UHC cell is still in the source cell.
C3_Witness ==
    /\ lastOp.kind = "dropRejected"
    /\ lastOp.from # noCell
    /\ lastOp.name \in Therapists
    /\ cellOf(schedule, lastOp.from) = lastOp.name
    /\ lastOp.to[3] = "UHC"

\* C4: after generation a person occupies no cell of a day that is in their
\* wfhDays, also when that day is in their availableDays.
C4_WfhPrecedence ==
    Generated =>
        \A p \in Therapists, c \in Cells :
            c[1] \in therapistRules[p].wfhDays => cellOf(schedule, c) # p

\* A generated grid and a person with a day in both wfhDays and availableDays,
\* available in both slots, who is rostered on the other day.
C4_Witness ==
    /\ Generated
    /\ \E p \in Therapists, c \in Cells :
          /\ "Wed" \in therapistRules[p].wfhDays \cap therapistRules[p].availableDays
          /\ therapistRules[p].availableSlots = Slots
          /\ c[1] = "Thu"
          /\ cellOf(schedule, c) = p

\* C5: after generation a person occupies a cell only on one of their
\* availableDays and in one of their availableSlots; so the reported total of a
\* person equals the number of cells they hold on their available days.
C5_Availability ==
    Generated =>
        /\ \A p \in Therapists, c \in Cells :
              cellOf(schedule, c) = p =>
                  /\ c[1] \in therapistRules[p].availableDays
                  /\ c[2] \in therapistRules[p].availableSlots
        /\ \A p \in Therapists :
              therapistSlotCounts[p].totalSlots =
                  Cardinality({c \in Cells :
                      /\ cellOf(schedule, c) = p
                      /\ c[1] \in therapistRules[p].availableDays})

\* A person available on Wed only (AM only), no WFH, holds a Wed AM cell and
\* nothing else, while the other person is rostered on Thu.
C5_Witness ==
    /\ Generated
    /\ \E p \in Therapists, q \in Therapists :
          /\ therapistRules[p].availableDays = {"Wed"}
          /\ therapistRules[p].availableSlots = {"AM"}
          /\ therapistRules[p].wfhDays = {}
          /\ therapistSlotCounts[p].totalSlots = 1
          /\ schedule["Wed"]["AM"]["Room A"] = p
          /\ q # p
          /\ schedule["Thu"]["AM"]["Room A"] = q

\* C6: after generation a person whose maxConsecutiveSlotsPerDay is 1 is never
\* in both the AM and the PM slot of one day.
C6_ConsecutiveCap ==
    Generated =>
        \A p \in Therapists, d \in Days :
            therapistRules[p].maxConsecutiveSlotsPerDay = 1 =>
                ~(/\ \E r \in Rooms : schedule[d]["AM"][r] = p
                  /\ \E r \in Rooms : schedule[d]["PM"][r] = p)

\* A person capped at 1 and available in both slots holds Room A on Wed AM,
\* and Room A on Wed PM stayed empty.
C6_Witness ==
    /\ Generated
    /\ \E p \in Therapists :
          /\ therapistRules[p].maxConsecutiveSlotsPerDay = 1
          /\ therapistRules[p].availableSlots = Slots
          /\ schedule["Wed"]["AM"]["Room A"] = p
          /\ schedule["Wed"]["PM"]["Room A"] = ""

\* The key set of a grid is exactly Day x Slot x Room.
GridComplete(grid) ==
    /\ DOMAIN grid = Days
    /\ \A d \in Days :
          /\ DOMAIN grid[d] = Slots
          /\ \A s \in Slots : DOMAIN grid[d][s] = Rooms

\* C7: in every reachable state (after mount, after the normalization of a
\* partial or stale stored grid, after generation, drop, move, clear and reset)
\* the grid's key set is exactly Day x Slot x Room.
C7_GridComplete == GridComplete(schedule) /\ GridComplete(newSchedule)

\* A grid loaded from a stored blob (which held a stale name) has been edited.
C7_Witness ==
    /\ lastOp.kind \in {"move", "clear", "listDrop"}
    /\ \E c \in Cells : cellOf(schedule, c) = "Former Staff"

\* C8: a pass that starts with the rules and the cursor value of an earlier
\* finished pass produces the same grid, counters and final cursor, whatever
\* grid was on display when it started.
C8_Deterministic ==
    (PassComplete /\ startIndex \in DOMAIN genLog) => genLog[startIndex] = passResult

\* A second pass with the rules and cursor of a logged one has finished, after
\* rule edits, over a displayed grid that differs from the result of both.
C8_Witness ==
    /\ PassComplete
    /\ startIndex \in DOMAIN genLog
    /\ ruleEdits > 0
    /\ schedule # newSchedule
    /\ \E c \in Cells : cellOf(schedule, c) # "" /\ cellOf(newSchedule, c) = ""

\* Nobody is eligible anywhere: each person is WFH or unavailable on every day,
\* or available in no slot.
NobodyEligible ==
    \A p \in Therapists :
        \/ therapistRules[p].availableSlots = {}
        \/ \A d \in Days :
              d \in therapistRules[p].wfhDays \/ d \notin therapistRules[p].availableDays

\* C9: generation is total: a pass never gets stuck, visits each cell exactly
\* once (so ends after |Day| x |Slot| x |Room| iterations) and yields a
\* complete grid; when nobody is eligible anywhere the grid is all empty and
\* all counters are zero.
C9_Total ==
    /\ pc = "generating" =>
          /\ Len(visited) <= Cardinality(Cells)
          /\ PassComplete \/ ENABLED GenerateCell
    /\ PassComplete =>
          /\ Len(visited) = Cardinality(Cells)
          /\ \A c \in Cells : Cardinality({i \in 1..Len(visited) : visited[i] = c}) = 1
          /\ GridComplete(newSchedule)
          /\ NobodyEligible =>
                /\ \A c \in Cells : cellOf(newSchedule, c) = ""
                /\ therapistTotalAssignments = zeroTotals
                /\ therapistRoomUsage = zeroRoomUsage

\* A finished pass under rules that mark every person WFH on every day (and
\* available on every day and slot as well).
C9_Witness ==
    /\ PassComplete
    /\ \A p \in Therapists :
          /\ therapistRules[p].wfhDays = Days
          /\ therapistRules[p].availableDays = Days
          /\ therapistRules[p].availableSlots = Slots
    /\ \A c \in Cells : cellOf(newSchedule, c) = ""

\* C10: a move of person p from cell X to another, open cell Y is one step,
\* from a grid in which X holds p to a grid in which X is empty and Y holds p,
\* every other cell unchanged.
C10_MoveAtomic ==
    [][lastOp'.kind = "move" =>
          /\ lastOp'.from # lastOp'.to
          /\ cellOf(schedule, lastOp'.from) = lastOp'.name
          /\ cellOf(schedule', lastOp'.from) = ""
          /\ cellOf(schedule', lastOp'.to) = lastOp'.name
          /\ \A c \in Cells \ {lastOp'.from, lastOp'.to} :
                cellOf(schedule', c) = cellOf(schedule, c)]_vars

\* A move has just been made onto a cell of another slot: the source is empty
\* and the destination holds the moved person.
C10_Witness ==
    /\ lastOp.kind = "move"
    /\ lastOp.from[2] # lastOp.to[2]
    /\ cellOf(schedule, lastOp.from) = ""
    /\ cellOf(schedule, lastOp.to) = lastOp.name

\* The drops that reach onDropCell.
dropKinds == {"listDrop", "move", "selfDrop", "dropRejected"}

\* C11: manual edits are validated against the room window only: every drop
\* of a person on a cell that is not window-blocked writes that person there,
\* whatever the person's WFH days, available days and slots, cap, and the
\* other room the person may hold in the same slot; only drops on blocked
\* cells are refused.
C11_DropsIgnoreRules ==
    [][lastOp'.kind \in dropKinds =>
          IF isUHCBlocked(lastOp'.to[1], lastOp'.to[2], lastOp'.to[3])
          THEN schedule' = schedule
          ELSE /\ cellOf(schedule', lastOp'.to) = lastOp'.name
               /\ lastOp'.name \in Therapists]_vars

\* A person who is WFH and unavailable on Wed, available in no slot and capped
\* at one slot a day has just been dropped on UHC on Wed AM while holding Room A
\* in the same slot and in the other slot: a grid no pass produces.
C11_Witness ==
    /\ lastOp.kind = "listDrop"
    /\ lastOp.to = <<"Wed", "AM", "UHC">>
    /\ LET p == lastOp.name
       IN  /\ p \in Therapists
           /\ schedule["Wed"]["AM"]["UHC"] = p
           /\ schedule["Wed"]["AM"]["Room A"] = p
           /\ schedule["Wed"]["PM"]["Room A"] = p
           /\ therapistRules[p].wfhDays = {"Wed"}
           /\ therapistRules[p].availableDays = {}
           /\ therapistRules[p].availableSlots = {}
           /\ therapistRules[p].maxConsecutiveSlotsPerDay = 1

\* C12: with 10 people, 5 days, 2 slots and 4 unrestricted rooms (40 cells),
\* everybody fully available, no WFH and cap 2, a pass from any cursor value
\* fills all 40 cells and gives every person exactly 4 assignments, in the
\* pass's own totals and in the counts reported for the published grid.
C12_BalancedLoad ==
    /\ PassComplete =>
          /\ \A c \in Cells : cellOf(newSchedule, c) \in Therapists
          /\ \A p \in Therapists : therapistTotalAssignments[p] = 4
    /\ Generated =>
          /\ \A c \in Cells : cellOf(schedule, c) \in Therapists
          /\ \A p \in Therapists : therapistSlotCounts[p].totalSlots = 4

\* A pass of the 40-cell scenario that started at a cursor other than 0 (its
\* first cell went to somebody other than the first person) has been published.
C12_Witness ==
    /\ Generated
    /\ Cardinality(Cells) = 40
    /\ Cardinality(Therapists) = 10
    /\ schedule["Mon"]["AM"]["Room A"] # "Dominic Yeo"

\* The grid on display is the one a load has just produced.
Loaded == pc = "idle" /\ lastOp.kind \in {"load", "reloadSaved"} /\ stored.present

\* C13: normalization is idempotent: normalizing the grid a load produced from
\* a stored blob (partial, stale or complete) gives that grid again, and so
\* does normalizing twice whatever is stored.
C13_NormalizeIdempotent ==
    /\ Loaded => normalizeSchedule(schedule) = schedule
    /\ stored.present =>
          LET g == jsonParse(stored.text)
          IN  normalizeSchedule(normalizeSchedule(g)) = normalizeSchedule(g)

\* A grid has just been loaded from a blob that has a stale day and lacks a
\* slot of a configured day, and some cell of the grid is occupied.
C13_Witness ==
    /\ Loaded
    /\ LET g == jsonParse(stored.text)
       IN  /\ staleDay \in DOMAIN g
           /\ "Wed" \in DOMAIN g
           /\ "PM" \notin DOMAIN g["Wed"]
    /\ \E c \in Cells : cellOf(schedule, c) # ""

\* C14: the grid loaded from a stored blob g holds at each cell of the
\* calendar shape the value g has at that key when g has the key, and the
\* empty string otherwise; keys of g outside the shape do not appear in it.
C14_NormalizeCarriesOver ==
    Loaded =>
        LET g == jsonParse(stored.text)
        IN  /\ GridComplete(schedule)
            /\ \A c \in Cells :
                  cellOf(schedule, c) =
                      IF /\ c[1] \in DOMAIN g
                         /\ c[2] \in DOMAIN g[c[1]]
                         /\ c[3] \in DOMAIN g[c[1]][c[2]]
                      THEN g[c[1]][c[2]][c[3]]
                      ELSE ""

\* A grid loaded from a blob with a stale room key and without the UHC key:
\* the stale name stored for Room A is carried over, UHC is defaulted.
C14_Witness ==
    /\ Loaded
    /\ lastOp.kind = "load"
    /\ LET g == jsonParse(stored.text)
       IN  /\ "Wed" \in DOMAIN g /\ "AM" \in DOMAIN g["Wed"]
           /\ staleRoom \in DOMAIN g["Wed"]["AM"]
           /\ "UHC" \notin DOMAIN g["Wed"]["AM"]
           /\ "Room A" \in DOMAIN g["Wed"]["AM"]
           /\ g["Wed"]["AM"]["Room A"] \notin Therapists \cup {""}
    /\ schedule["Wed"]["AM"]["Room A"] \notin Therapists \cup {""}
    /\ schedule["Wed"]["AM"]["UHC"] = ""

\* C16: the grid blob round trip is lossless: the grid saveSchedule has just
\* written loads back as the grid on display, and a reload right after a save
\* leaves every cell of the grid as it was.
C16_RoundTrip ==
    [][/\ lastOp'.kind = "save" => loadedSchedule(stored') = schedule'
       /\ lastOp'.kind = "reloadSaved" => schedule' = schedule]_vars

\* The page has been reloaded right after a save of a grid that holds a
\* configured person, a stale name and an empty cell.
C16_Witness ==
    /\ lastOp.kind = "reloadSaved"
    /\ stored.present
    /\ \E c \in Cells : cellOf(schedule, c) \in Therapists
    /\ \E c \in Cells : cellOf(schedule, c) \notin Therapists \cup {""}
    /\ \E c \in Cells : cellOf(schedule, c) = ""

\* C15: after the load of a stored rules blob in which a configured person's
\* entry is absent or lacks any of the four fields, a generation run does not
\* fail, and it ends with every configured person having all four fields.
C15_RulesBlobTolerated ==
    /\ lastOp.kind # "generateFailed"
    /\ Generated => \A t \in Therapists : ruleFields \subseteq DOMAIN therapistRules[t]

\* C17: the incremental counters of a pass agree with a full recount: after
\* every cell of the pass and at its end, for every person p and room r,
\* therapistTotalAssignments[p] is the number of cells of the grid under
\* construction that hold p and therapistRoomUsage[p][r] the number of those
\* in room r, which is what calculateTherapistCounts gives for that grid.
C17_CountersAgree ==
    pc = "generating" =>
        /\ \A p \in Therapists :
              /\ therapistTotalAssignments[p] =
                     Cardinality({c \in Cells : cellOf(newSchedule, c) = p})
              /\ \A r \in Rooms :
                    therapistRoomUsage[p][r] =
                        Cardinality({c \in Cells :
                            c[3] = r /\ cellOf(newSchedule, c) = p})
        /\ calculateTherapistCounts(newSchedule) =
               [p \in Therapists |->
                   [totalSlots |-> therapistTotalAssignments[p],
                    roomDistribution |-> therapistRoomUsage[p]]]

\* A finished pass in which one person was counted three times, once of them
\* in UHC, and a cell stayed empty.
C17_Witness ==
    /\ PassComplete
    /\ \E p \in Therapists :
          /\ therapistTotalAssignments[p] = 3
          /\ therapistRoomUsage[p]["UHC"] = 1
    /\ \E c \in Cells : ~isUHCBlocked(c[1], c[2], c[3]) /\ cellOf(newSchedule, c) = ""

\* The sum of f over the finite set S.
RECURSIVE sumOver(_, _)
sumOver(f, S) ==
    IF S = {} THEN 0
    ELSE LET x == CHOOSE y \in S : TRUE
         IN  f[x] + sumOver(f, S \ {x})

\* C18: the reported counters never drift from the grid: between operations
\* (after mount, load, generation, drop, move, clear, reset and reload) the
\* counters are those of a recount of the grid on display: for every
\* configured person, totalSlots is the number of cells holding that person
\* and the sum of their roomDistribution, and each room's entry is the number
\* of that room's cells holding them.
C18_CountersMatchGrid ==
    /\ DOMAIN therapistSlotCounts = Therapists
    /\ \A p \in Therapists :
          /\ therapistSlotCounts[p].totalSlots =
                 Cardinality({c \in Cells : cellOf(schedule, c) = p})
          /\ therapistSlotCounts[p].totalSlots =
                 sumOver(therapistSlotCounts[p].roomDistribution, Rooms)
          /\ \A r \in Rooms :
                therapistSlotCounts[p].roomDistribution[r] =
                    Cardinality({c \in Cells : c[3] = r /\ cellOf(schedule, c) = p})

\* A person has just been dropped from the list on a grid that holds a stale
\* name, and somebody is counted twice in Room A.
C18_Witness ==
    /\ lastOp.kind = "listDrop"
    /\ \E c \in Cells : cellOf(schedule, c) \notin Therapists \cup {""}
    /\ \E p \in Therapists :
          /\ therapistSlotCounts[p].totalSlots = 2
          /\ therapistSlotCounts[p].roomDistribution["Room A"] = 2

\* C19: generation publishes atomically: the grid on display does not change
\* when a pass starts nor while it runs, and changes once, in the step that
\* ends the pass, to the grid the pass has built over all cells.
C19_AtomicPublish ==
    [][/\ pc' = "generating" => schedule' = schedule
       /\ (pc = "generating" /\ pc' = "idle") =>
              /\ PassComplete
              /\ Len(visited) = Cardinality(Cells)
              /\ schedule' = newSchedule
              /\ GridComplete(schedule')]_vars

\* A pass is half way through the cells while the grid on display is still
\* the earlier, manually edited grid, which differs from what the pass builds.
C19_Witness ==
    /\ pc = "generating"
    /\ Len(visited) = 4
    /\ schedule["Wed"]["AM"]["Room A"] # newSchedule["Wed"]["AM"]["Room A"]
    /\ schedule["Wed"]["AM"]["Room A"] # ""
    /\ schedule["Thu"]["PM"]["Room A"] # ""
    /\ newSchedule["Thu"]["PM"]["Room A"] = ""

\* The people canAssignTherapist accepts for a cell in the current state.
eligibleFor(c) ==
    {t \in Therapists : canAssignTherapist(t, c[1], c[2], c[3], dayAssignments)}

\* C20: at every cell a pass fills, the person written is eligible for the
\* cell at that moment and has the lexicographic minimum of (total
\* assignments, assignments in the cell's room) among the eligible people.
C20_SelectionRule ==
    [][(lastOp'.kind = "generateCell" /\ lastOp'.name # "") =>
          LET p == lastOp'.name
              c == lastOp'.to
          IN  /\ cellOf(newSchedule', c) = p
              /\ p \in eligibleFor(c)
              /\ \A q \in eligibleFor(c) :
                    \/ therapistTotalAssignments[p] < therapistTotalAssignments[q]
                    \/ /\ therapistTotalAssignments[p] = therapistTotalAssignments[q]
                       /\ therapistRoomUsage[p][c[3]] <= therapistRoomUsage[q][c[3]]]_vars

\* Room A on Wed PM has just gone to a person p although the other person q,
\* unrestricted too, had the same total: q had held Room A before and p had
\* not, so the room count decided.
C20_Witness ==
    /\ pc = "generating"
    /\ lastOp.kind = "generateCell"
    /\ lastOp.to = <<"Wed", "PM", "Room A">>
    /\ \A t \in Therapists : therapistRules[t] = initializeDefaultAvailability[t]
    /\ \E q \in Therapists :
          LET p == lastOp.name
          IN  /\ p \in Therapists \ {q}
              /\ therapistTotalAssignments[p] = 2
              /\ therapistTotalAssignments[q] = 1
              /\ therapistRoomUsage[p]["Room A"] = 1
              /\ therapistRoomUsage[q]["Room A"] = 1

\* The place of a person in the scan that starts at the cursor: 0 for the
\* person at the cursor index, counting on in list order and wrapping around.
scanPlace(t, cursor) ==
    LET i == CHOOSE k \in 1..Len(therapists) : therapists[k] = t
    IN  ((i - 1) + Len(therapists) - cursor) % Len(therapists)

\* The score of a person for a room in the current state.
scoreOf(t, room) == therapistTotalAssignments[t] * 1000 + therapistRoomUsage[t][room]

\* C21: for each cell the scan visits every person exactly once, in list
\* order from the cursor index and wrapping around, and among the eligible
\* people with the lowest score the one the scan visits first is selected.
C21_TieBreakByScanOrder ==
    [][lastOp'.kind = "generateCell" =>
          LET order == scanOrder(lastAssignedIndex)
              c == lastOp'.to
              p == lastOp'.name
          IN  /\ Len(order) = Len(therapists)
              /\ \A t \in Therapists :
                    /\ Cardinality({i \in 1..Len(order) : order[i] = t}) = 1
                    /\ order[scanPlace(t, lastAssignedIndex) + 1] = t
              /\ p # "" =>
                    \A q \in eligibleFor(c) :
                        scoreOf(q, c[3]) = scoreOf(p, c[3]) =>
                            scanPlace(p, lastAssignedIndex) <= scanPlace(q, lastAssignedIndex)]_vars

\* The first cell of a pass that started with the cursor on the third person
\* went to the third person, all three being unrestricted and tied at zero.
C21_Witness ==
    /\ pc = "generating"
    /\ Len(visited) = 1
    /\ startIndex = 2
    /\ lastOp.kind = "generateCell"
    /\ lastOp.name = therapists[3]
    /\ therapistRules = initializeDefaultAvailability

\* The cursor is on the person of the last cell the running pass has filled,
\* or where it was when the pass started if the pass has filled none.
CursorTracksPass ==
    LET filled == {i \in 1..Len(visited) : cellOf(newSchedule, visited[i]) # ""}
    IN  IF filled = {}
        THEN lastAssignedIndex = startIndex
        ELSE LET last == CHOOSE i \in filled : \A j \in filled : j <= i
             IN  therapists[lastAssignedIndex + 1] = cellOf(newSchedule, visited[last])

\* C22: within a pass, when a cell is visited the cursor is the list index of
\* the person most recently assigned earlier in the pass, or the value the
\* pass started with if there is none: filling a cell puts it on the selected
\* person, leaving a cell empty leaves it alone, and nothing else moves it,
\* neither the start of the pass nor a slot or day boundary.
C22_CursorTracking ==
    [][/\ lastOp'.kind = "generateStart" => lastAssignedIndex' = lastAssignedIndex
       /\ lastOp'.kind = "generateCell" =>
              IF lastOp'.name # ""
              THEN therapists[lastAssignedIndex' + 1] = lastOp'.name
              ELSE lastAssignedIndex' = lastAssignedIndex
       /\ pc' = "generating" => CursorTracksPass']_vars

\* The pass stands at the day boundary (Wed done, Thu AM first room next), the
\* whole Wed PM slot stayed empty, and the cursor is still on the person of
\* the last Wed AM cell filled, away from 0 and from where the pass started.
C22_Witness ==
    /\ pc = "generating"
    /\ Len(visited) = 6
    /\ loopPos = [d |-> 2, s |-> 1, r |-> 1]
    /\ lastOp.kind = "generateCell"
    /\ lastOp.name = ""
    /\ \A r \in Rooms : newSchedule["Wed"]["PM"][r] = ""
    /\ lastAssignedIndex # startIndex
    /\ lastAssignedIndex # 0
    /\ therapists[lastAssignedIndex + 1] = newSchedule["Wed"]["AM"]["BTC"]

\* C23: a pass leaves the cell it visits empty if and only if no person
\* passes canAssignTherapist for the cell at that moment; whenever somebody
\* is eligible the cell is filled with a person.
C23_EmptyIffNobodyEligible ==
    [][lastOp'.kind = "generateCell" =>
          LET c == lastOp'.to
          IN  /\ cellOf(newSchedule', c) = lastOp'.name
              /\ (cellOf(newSchedule', c) = "") <=> (eligibleFor(c) = {})
              /\ eligibleFor(c) # {} => cellOf(newSchedule', c) \in Therapists]_vars

\* The pass has just left Room A (never window-blocked) empty on Thu PM
\* although it filled Room A on Wed AM, under rules that give nobody an empty
\* day list.
C23_Witness ==
    /\ pc = "generating"
    /\ lastOp.kind = "generateCell"
    /\ lastOp.name = ""
    /\ lastOp.to = <<"Thu", "PM", "Room A">>
    /\ newSchedule["Wed"]["AM"]["Room A"] # ""
    /\ \A t \in Therapists : therapistRules[t].availableDays # {}

\* C24: the per-day occupancy is reset at every day boundary: while a pass
\* stands in day d, the occupancy table that eligibility reads marks exactly
\* the (person, slot) pairs the pass has assigned on day d so far, whatever
\* the person held on earlier days; under it a cap-1 person who held a slot
\* the day before is eligible again.
C24_PerDayReset ==
    (pc = "generating" /\ loopPos.d <= Len(days)) =>
        LET day == days[loopPos.d]
        IN  /\ \A t \in Therapists : \A s \in Slots :
                   dayAssignments[t][s] = (\E r \in Rooms : newSchedule[day][s][r] = t)
            /\ loopPos.s = 1 /\ loopPos.r = 1 =>
                   \A t \in Therapists :
                       (/\ therapistRules[t].maxConsecutiveSlotsPerDay = 1
                        /\ day \in therapistRules[t].availableDays
                        /\ day \notin therapistRules[t].wfhDays
                        /\ "AM" \in therapistRules[t].availableSlots)
                       => t \in eligibleFor(<<day, "AM", "Room A">>)

\* A person capped at one slot a day was given a Wed slot and then, as the
\* first assignment of Thu, the first room of Thu AM.
C24_Witness ==
    /\ pc = "generating"
    /\ lastOp.kind = "generateCell"
    /\ lastOp.to = <<"Thu", "AM", "Room A">>
    /\ lastOp.name # ""
    /\ therapistRules[lastOp.name].maxConsecutiveSlotsPerDay = 1
    /\ \E r \in Rooms : newSchedule["Wed"]["AM"][r] = lastOp.name

\* The list the scan of the cell under the loop indices builds.
scanList ==
    eligibleTherapists(lastAssignedIndex, days[loopPos.d], slots[loopPos.s],
                       rooms[loopPos.r], dayAssignments,
                       therapistTotalAssignments, therapistRoomUsage)

\* C25: throughout a pass every total and every per-room count is at most
\* |Day| x |Slot| = 10, hence below the weight 1000, and in the list a scan
\* builds a person with fewer total assignments always has the strictly
\* smaller score, whatever the per-room counts are.
C25_WeightSufficient ==
    pc = "generating" =>
        /\ Len(days) * Len(slots) = 10
        /\ \A t \in Therapists :
               /\ therapistTotalAssignments[t] =
                      Cardinality({c \in Cells : cellOf(newSchedule, c) = t})
               /\ therapistTotalAssignments[t] <= Len(days) * Len(slots)
               /\ therapistTotalAssignments[t] < 1000
               /\ \A r \in Rooms :
                      /\ therapistRoomUsage[t][r] <= Len(days) * Len(slots)
                      /\ therapistRoomUsage[t][r] < 1000
        /\ loopPos.d <= Len(days) =>
               \A i, j \in 1..Len(scanList) :
                   therapistTotalAssignments[scanList[i].therapist]
                       < therapistTotalAssignments[scanList[j].therapist]
                   => scanList[i].score < scanList[j].score

\* A scan list holds a person with fewer assignments in total and more in the
\* room of the cell than another person of the list.
C25_Witness ==
    /\ pc = "generating"
    /\ loopPos.d <= Len(days)
    /\ \E i, j \in 1..Len(scanList) :
           LET p == scanList[i].therapist
               q == scanList[j].therapist
               room == rooms[loopPos.r]
           IN  /\ therapistTotalAssignments[p] < therapistTotalAssignments[q]
               /\ therapistRoomUsage[p][room] > therapistRoomUsage[q][room]

\* C26: rule editing keeps availableDays and wfhDays mutually exclusive: the
\* defaults are disjoint for every person, and from rules that are disjoint
\* for every person any sequence of day, WFH, slot and cap edits leads to
\* rules that are disjoint for every person.
C26_DaysExclusive ==
    /\ \A t \in Therapists :
           initializeDefaultAvailability[t].availableDays
               \cap initializeDefaultAvailability[t].wfhDays = {}
    /\ \A t \in Therapists :
           therapistRules[t].availableDays \cap therapistRules[t].wfhDays = {}

\* After two edits, the last one a WFH box of a person who now works from
\* home on Wed and is in the office on Thu.
C26_Witness ==
    /\ ruleEdits = 2
    /\ lastOp.kind = "wfh"
    /\ lastOp.name \in Therapists
    /\ therapistRules[lastOp.name].wfhDays = {"Wed"}
    /\ therapistRules[lastOp.name].availableDays = {"Thu"}

\* C27: a confirmed reset replaces the grid wholesale: after it every cell of
\* the calendar shape exists and is empty, whatever the grid held before, and
\* the availability rules are the ones from before.
C27_ResetEmptiesGrid ==
    [][lastOp'.kind = "reset" =>
          /\ DOMAIN schedule' = Days
          /\ \A d \in Days :
                 /\ DOMAIN schedule'[d] = Slots
                 /\ \A s \in Slots :
                        /\ DOMAIN schedule'[d][s] = Rooms
                        /\ \A r \in Rooms : schedule'[d][s][r] = ""
          /\ therapistRules' = therapistRules]_vars

\* A reset has just run after a generation that had assigned somebody (the
\* cursor left 0), under rules that are not the defaults.
C27_Witness ==
    /\ lastOp.kind = "reset"
    /\ lastAssignedIndex # 0
    /\ therapistRules # initializeDefaultAvailability
    /\ \A c \in Cells : cellOf(schedule, c) = ""

\* C28: dropping a person dragged from a cell back onto that cell leaves the
\* grid unchanged: the source is not cleared, the cell still holds the person
\* and the counts stay as they were.
C28_SelfDropNoChange ==
    [][lastOp'.kind = "selfDrop" =>
          /\ lastOp'.from = lastOp'.to
          /\ schedule' = schedule
          /\ cellOf(schedule', lastOp'.to) = lastOp'.name
          /\ lastOp'.name \in Therapists
          /\ therapistSlotCounts' = therapistSlotCounts]_vars

\* The occupant of Wed AM Room A has just been dropped on Wed AM Room A while
\* another room of the slot is occupied too.
C28_Witness ==
    /\ lastOp.kind = "selfDrop"
    /\ lastOp.from = <<"Wed", "AM", "Room A">>
    /\ lastOp.to = <<"Wed", "AM", "Room A">>
    /\ schedule["Wed"]["AM"]["Room A"] = lastOp.name
    /\ schedule["Wed"]["AM"]["UHC"] # ""

\* Person t holds some room of (day, slot) in the grid.
holdsSlot(grid, t, day, slot) == \E r \in Rooms : grid[day][slot][r] = t

\* Placing t in cell c of the grid would break WFH, availability, the
\* consecutive cap or same-slot exclusivity.
placementViolates(grid, t, c) ==
    LET rules == therapistRules[t]
        otherSlot == IF c[2] = "AM" THEN "PM" ELSE "AM"
    IN  \/ c[1] \in rules.wfhDays
        \/ c[1] \notin rules.availableDays
        \/ c[2] \notin rules.availableSlots
        \/ rules.maxConsecutiveSlotsPerDay = 1 /\ holdsSlot(grid, t, c[1], otherSlot)
        \/ holdsSlot(grid, t, c[1], c[2])

\* C29: generated grids are maximal: in the grid a pass publishes, for every
\* empty cell that is not window-blocked, placing any person there would
\* break WFH, availability, the consecutive cap or same-slot exclusivity with
\* respect to the finished grid.
C29_GeneratedMaximal ==
    Generated =>
        \A c \in Cells :
            (cellOf(schedule, c) = "" /\ ~isUHCBlocked(c[1], c[2], c[3])) =>
                \A t \in Therapists : placementViolates(schedule, t, c)

\* A published grid with Thu PM BTC empty where one person is kept out by
\* the cap alone (holds Thu AM, cap 1, otherwise free for Thu PM) and another
\* by same-slot exclusivity alone (holds another room of Thu PM).
C29_Witness ==
    /\ Generated
    /\ schedule["Thu"]["PM"]["BTC"] = ""
    /\ \E t \in Therapists :
           /\ therapistRules[t].maxConsecutiveSlotsPerDay = 1
           /\ holdsSlot(schedule, t, "Thu", "AM")
           /\ "Thu" \in therapistRules[t].availableDays \ therapistRules[t].wfhDays
           /\ "PM" \in therapistRules[t].availableSlots
    /\ \E t \in Therapists : holdsSlot(schedule, t, "Thu", "PM")

\* C30: rooms are starved in configured order: in every (day, slot) of a
\* published grid, once a room that is not window-blocked is empty, every
\* later room of the configured order that is not window-blocked is empty
\* too, so the filled ones form a prefix of the non-blocked rooms.
C30_RoomsStarvedInOrder ==
    Generated =>
        \A d \in Days : \A s \in Slots :
            \A i, j \in 1..Len(rooms) :
                (/\ i < j
                 /\ ~isUHCBlocked(d, s, rooms[i])
                 /\ ~isUHCBlocked(d, s, rooms[j])
                 /\ schedule[d][s][rooms[i]] = "")
                => schedule[d][s][rooms[j]] = ""

\* A published grid whose Wed AM has the first room filled and the two later
\* open rooms empty, and whose Thu PM has two rooms filled and the last empty.
C30_Witness ==
    /\ Generated
    /\ schedule["Wed"]["AM"]["Room A"] # ""
    /\ schedule["Wed"]["AM"]["UHC"] = ""
    /\ schedule["Wed"]["AM"]["BTC"] = ""
    /\ schedule["Thu"]["PM"]["Room A"] # ""
    /\ schedule["Thu"]["PM"]["UHC"] # ""
    /\ schedule["Thu"]["PM"]["BTC"] = ""

\* The cells of the grid that hold person t.
cellsOf(grid, t) == {c \in Cells : cellOf(grid, c) = t}

\* The UHC cells outside the two allowed windows, written out.
blockedUHCCells ==
    {c \in Cells : c[3] = "UHC" /\ <<c[1], c[2]>> \notin uhcWindow}

\* C31: with the shipped configuration and the default rules, a pass from any
\* cursor publishes a grid whose 8 blocked UHC cells are empty and whose 82
\* other cells each hold a person, and in which every person holds 8 or 9
\* cells, so that two totals differ by at most 1.
C31_ShippedGridFullAndBalanced ==
    Generated =>
        /\ Cardinality(blockedUHCCells) = 8
        /\ Cardinality(Cells \ blockedUHCCells) = 82
        /\ \A c \in blockedUHCCells : cellOf(schedule, c) = ""
        /\ \A c \in Cells \ blockedUHCCells : cellOf(schedule, c) \in Therapists
        /\ \A t \in Therapists : Cardinality(cellsOf(schedule, t)) \in {8, 9}
        /\ \A t \in Therapists :
               therapistSlotCounts[t].totalSlots = Cardinality(cellsOf(schedule, t))

\* A grid published by a pass that started with the cursor on the last
\* person, with both a person of 8 cells and a person of 9 cells.
C31_Witness ==
    /\ Generated
    /\ cellOf(schedule, <<"Mon", "AM", "Room A">>) = therapists[Len(therapists)]
    /\ \E t \in Therapists : Cardinality(cellsOf(schedule, t)) = 8
    /\ \E t \in Therapists : Cardinality(cellsOf(schedule, t)) = 9

\* C32: the cursor is 0 at startup and is never reset afterwards: the only
\* step that writes it is a pass filling a cell, so a run starts scanning at
\* the cursor the previous run left, and resets, manual edits, rule edits,
\* declined confirmations, and the start and the publication of a run leave
\* it as it is.
C32_CursorOutlivesRun ==
    /\ lastAssignedIndex = 0
    /\ [][/\ lastOp'.kind # "generateCell" => lastAssignedIndex' = lastAssignedIndex
          /\ lastOp'.kind = "generateStart" => startIndex' = lastAssignedIndex]_vars

\* A run has just started on a grid that a reset emptied, and it starts
\* scanning at the second person, where an earlier run left the cursor.
C32_Witness ==
    /\ pc = "generating"
    /\ lastOp.kind = "generateStart"
    /\ startIndex = 1
    /\ lastAssignedIndex = 1
    /\ \A c \in Cells : cellOf(schedule, c) = ""

\* The cells of the grid that hold anything.
nonEmptyCells(grid) == {c \in Cells : cellOf(grid, c) # ""}

\* C33: a drop overwrites and never swaps: after a move or a list drop the
\* target holds the dropped person, and nobody else holds a cell they did not
\* hold before; a move increases neither the number of non-empty cells nor
\* the number of cells of the moved person, and a list drop increases the
\* number of non-empty cells by at most 1.
C33_DropOverwrites ==
    [][lastOp'.kind \in {"move", "listDrop"} =>
          LET p == lastOp'.name
          IN  /\ cellOf(schedule', lastOp'.to) = p
              /\ \A q \in Therapists \ {p} :
                     cellsOf(schedule', q) \subseteq cellsOf(schedule, q) \ {lastOp'.to}
              /\ lastOp'.kind = "move" =>
                     /\ Cardinality(nonEmptyCells(schedule'))
                            <= Cardinality(nonEmptyCells(schedule))
                     /\ Cardinality(cellsOf(schedule', p))
                            <= Cardinality(cellsOf(schedule, p))
              /\ lastOp'.kind = "listDrop" =>
                     Cardinality(nonEmptyCells(schedule'))
                         <= Cardinality(nonEmptyCells(schedule)) + 1]_vars

\* A move from Wed AM Room A onto Wed AM UHC has left the moved person as the
\* only occupant of the slot, although the grid still holds the other person
\* in the afternoon.
C33_Witness ==
    /\ lastOp.kind = "move"
    /\ lastOp.from = <<"Wed", "AM", "Room A">>
    /\ lastOp.to = <<"Wed", "AM", "UHC">>
    /\ schedule["Wed"]["AM"]["Room A"] = ""
    /\ schedule["Wed"]["AM"]["UHC"] = lastOp.name
    /\ schedule["Wed"]["PM"]["Room A"] \in Therapists \ {lastOp.name}

\* The cells in which two grids differ.
changedCells(before, after) == {c \in Cells : cellOf(before, c) # cellOf(after, c)}

\* C34: the frame of the manual edits: a list drop changes at most the target
\* cell, a move at most the target and the source, a refused drop and a drop
\* on the cell itself nothing, and clearSlot exactly the addressed cell, which
\* becomes empty; none of them changes a rule or the cursor, and a rule edit
\* never changes the grid.
C34_ManualEditFrame ==
    [][/\ lastOp'.kind = "listDrop" =>
              changedCells(schedule, schedule') \subseteq {lastOp'.to}
       /\ lastOp'.kind = "move" =>
              changedCells(schedule, schedule') \subseteq {lastOp'.from, lastOp'.to}
       /\ lastOp'.kind \in {"selfDrop", "dropRejected"} => schedule' = schedule
       /\ lastOp'.kind = "clear" =>
              /\ changedCells(schedule, schedule') = {lastOp'.to}
              /\ cellOf(schedule', lastOp'.to) = ""
       /\ lastOp'.kind \in {"listDrop", "move", "selfDrop", "dropRejected", "clear"} =>
              /\ therapistRules' = therapistRules
              /\ lastAssignedIndex' = lastAssignedIndex
       /\ lastOp'.kind \in {"day", "wfh", "slot", "cap"} =>
              /\ schedule' = schedule
              /\ therapistSlotCounts' = therapistSlotCounts]_vars

\* Wed AM Room A has just been cleared while Wed AM UHC and Wed PM Room A stay
\* occupied, after a rule edit and with the cursor away from 0.
C34_Witness ==
    /\ lastOp.kind = "clear"
    /\ lastOp.to = <<"Wed", "AM", "Room A">>
    /\ schedule["Wed"]["AM"]["Room A"] = ""
    /\ schedule["Wed"]["AM"]["UHC"] # ""
    /\ schedule["Wed"]["PM"]["Room A"] # ""
    /\ ruleEdits > 0
    /\ lastAssignedIndex # 0

\* The rules after the WFH box of (t, d) is checked and then unchecked.
wfhCheckedThenUnchecked(t, d) ==
    handleAvailabilityChange(
        handleAvailabilityChange(therapistRules, t, "wfh", d, TRUE), t, "wfh", d, FALSE)

\* Person t is refused for every cell of day d, even with nothing assigned.
ineligibleOn(t, d) ==
    \A s \in Slots : \A r \in Rooms :
        ~canAssignTherapist(t, d, s, r, freshDayAssignments)

\* C35: WFH toggling is not a round trip.  For a day in a person's
\* availableDays, checking the WFH box and unchecking it again gives rules
\* that differ from the ones before, with the day in neither list; a WFH edit
\* that checks a day takes it out of availableDays, one that unchecks a day
\* leaves availableDays alone; and a person whose day is in neither list is
\* refused by generation for every cell of that day.
C35_WfhToggleNotRoundTrip ==
    /\ [](\A t \in Therapists : \A d \in Days :
             /\ d \in therapistRules[t].availableDays =>
                    LET after == wfhCheckedThenUnchecked(t, d)
                    IN  /\ d \notin after[t].availableDays
                        /\ d \notin after[t].wfhDays
                        /\ after # therapistRules
             /\ d \notin therapistRules[t].availableDays => ineligibleOn(t, d))
    /\ [][lastOp'.kind = "wfh" =>
             LET t == lastOp'.name
             IN  \A d \in Days :
                     /\ d \in therapistRules'[t].wfhDays \ therapistRules[t].wfhDays =>
                            d \notin therapistRules'[t].availableDays
                     /\ d \in therapistRules[t].wfhDays \ therapistRules'[t].wfhDays =>
                            /\ therapistRules'[t].availableDays =
                                   therapistRules[t].availableDays
                            /\ d \notin therapistRules'[t].availableDays]_vars

\* From the defaults the WFH box of Wed was checked and unchecked for one
\* person (the only two edits that leave Wed in neither list and everything
\* else at its default), and the run after it gave rooms to the other person
\* only.
C35_Witness ==
    /\ ruleEdits = 2
    /\ Generated
    /\ \E t \in Therapists :
           /\ therapistRules[t].availableDays = {}
           /\ therapistRules[t].wfhDays = {}
           /\ therapistRules[t].availableSlots = Slots
           /\ therapistRules[t].maxConsecutiveSlotsPerDay = 2
           /\ cellsOf(schedule, t) = {}
           /\ \A u \in Therapists \ {t} :
                  /\ therapistRules[u] = initializeDefaultAvailability[u]
                  /\ cellsOf(schedule, u) # {}

\* The cells the room window blocks.
blockedCells == {c \in Cells : isUHCBlocked(c[1], c[2], c[3])}

countedTotal ==
    sumOver([t \in DOMAIN therapistSlotCounts |-> therapistSlotCounts[t].totalSlots],
            DOMAIN therapistSlotCounts)

\* C37: the recount ignores unknown names: the counts have an entry for the
\* configured people and nobody else, the sum of their totalSlots is the
\* number of cells holding a configured person, which never exceeds the
\* number of non-empty cells and equals it on a generated grid.
C37_RecountIgnoresUnknown ==
    /\ DOMAIN therapistSlotCounts = Therapists
    /\ countedTotal = Cardinality({c \in Cells : cellOf(schedule, c) \in Therapists})
    /\ countedTotal <= Cardinality(nonEmptyCells(schedule))
    /\ Generated => countedTotal = Cardinality(nonEmptyCells(schedule))

\* A loaded grid that holds a name outside the person list next to a person a
\* list drop has just put in: one cell counted, two cells occupied.
C37_Witness ==
    /\ lastOp.kind = "listDrop"
    /\ \E c \in Cells : cellOf(schedule, c) = "Former Staff"
    /\ countedTotal = 1
    /\ Cardinality(nonEmptyCells(schedule)) >= 2

\* C38: the round-robin cursor is always a valid index of the person list:
\* 0 <= cursor < number of persons in every reachable state.
C38_CursorValidIndex ==
    /\ lastAssignedIndex \in Int
    /\ 0 <= lastAssignedIndex
    /\ lastAssignedIndex < Len(therapists)

\* A pass has just filled a cell with the last person of the list: the cursor
\* is on the highest index.
C38_Witness ==
    /\ pc = "generating"
    /\ lastOp.kind = "generateCell"
    /\ lastAssignedIndex = Len(therapists) - 1
    /\ \E c \in Cells : cellOf(newSchedule, c) = therapists[Len(therapists)]
    /\ ruleEdits > 0

====
